---- MODULE Spec2Model ----
(***************************************************************************)
(* Model of the Zip Packager view provider (src/dist/extension.js).        *)
(*                                                                         *)
(* The provider owns a Map `entries` (key -> entry, insertion ordered), an *)
(* optional webview `view`, and handles four webview messages (add,        *)
(* remove, clear, pack) and three commands (refresh, clearAll, pack).      *)
(* The handlers run on one event loop: a handler runs without interruption *)
(* from one `await` to the next, so every action below is one such         *)
(* run-to-suspension segment of a handler.                                 *)
(*                                                                         *)
(* Strings whose characters matter (paths, file contents, the document)    *)
(* are sequences of one-character strings; the fixed pieces of the         *)
(* template literals are single tokens.  The two CJK words of the          *)
(* templates and the backtick are written by their code points (U+....).  *)
(***************************************************************************)
EXTENDS Integers, Sequences, FiniteSets, TLC

VARIABLES
    entries,    \* this.entries: the Map, as the sequence of its live entries in insertion order
    view,       \* this.view is set (TRUE) or undefined (FALSE)
    posted,     \* the message most recently posted to the webview (notifyEntries), or NoPost
    fsExists,   \* the file system: which of the workspace resources currently exist
    hasRoot,    \* vscode.workspace.workspaceFolders?.[0] is defined
    addQ,       \* the handleAdd calls in flight (suspended at an await), oldest first
    packQ,      \* the packEntries calls in flight (suspended at an await), oldest first
    outFile,    \* the file the last handler segment wrote with fs.writeFile, or NoFile
    searchDir,  \* <root>/search exists (created by fs.ensureDir)
    lastOp,     \* the handler segment that ran last: what it was, and how many snapshots it posted
    notes,      \* the notifications and log lines the last segment emitted, in order
    tagIn,      \* a file name or relative path handed to the language-tag expression
    tagOut,     \* the tag computed for it (NoTag before)
    stampIn,    \* a value of `new Date()` handed to createArchive's path computation
    stampOut    \* the timestamp and the output path computed from it (NoStamp before)

provider == <<entries, view, posted, fsExists, hasRoot, addQ, packQ, outFile, searchDir, lastOp, notes>>
tagVars == <<tagIn, tagOut, stampIn, stampOut>>
vars == <<provider, tagVars>>

(***************************************************************************)
(* Bounds of the model.                                                    *)
(***************************************************************************)
MaxBatch == 2        \* longest `uris` array of an add message
MaxInFlight == 1     \* add and pack handlers suspended at an await at once

(***************************************************************************)
(* Generic helpers.                                                        *)
(***************************************************************************)
Range(s) == {s[i] : i \in 1..Len(s)}

RECURSIVE SelectKeep(_, _)
\* the subsequence of s whose elements are not in the set `drop`
SelectKeep(s, drop) ==
    IF s = <<>> THEN <<>>
    ELSE IF Head(s) \in drop THEN SelectKeep(Tail(s), drop)
         ELSE <<Head(s)>> \o SelectKeep(Tail(s), drop)

RECURSIVE BitAnd(_, _)
\* JavaScript's a & b on non-negative integers
BitAnd(a, b) ==
    IF a = 0 \/ b = 0 THEN 0
    ELSE (IF a % 2 = 1 /\ b % 2 = 1 THEN 1 ELSE 0) + 2 * BitAnd(a \div 2, b \div 2)

SeqsUpTo(S, n) == UNION {[1..m -> S] : m \in 1..n}

(***************************************************************************)
(* The world outside the provider: locators, resources, the workspace.     *)
(***************************************************************************)
NoKey == "none"

\* the raw strings an add message can carry ("" is skipped at line 106)
Raws == {"file:///w/a.py", "file:///w/a%2Epy", "file:///w/Makefile", "file:///w/d",
         "file:///elsewhere/o.txt", "file:///w/dev", ""}

\* vscode.Uri.parse(raw).toString(): the canonical form of the locator
UriKey(raw) ==
    CASE raw = "file:///w/a.py"          -> "file:///w/a.py"
      [] raw = "file:///w/a%2Epy"        -> "file:///w/a.py"
      [] raw = "file:///w/Makefile"      -> "file:///w/Makefile"
      [] raw = "file:///w/d"             -> "file:///w/d"
      [] raw = "file:///elsewhere/o.txt" -> "file:///elsewhere/o.txt"
      [] raw = "file:///w/dev"           -> "file:///w/dev"

Keys == {UriKey(r) : r \in Raws \ {""}}

\* the resources that can appear and disappear while the extension runs; they
\* are the ones an entry can name, so the keys a remove message can carry
DynKeys == {"file:///w/a.py", "file:///w/Makefile", "file:///w/d"}

\* vscode.workspace.getWorkspaceFolder(uri) is defined
InWorkspace(key) == hasRoot /\ key # "file:///elsewhere/o.txt"

\* vscode.FileType
FileTypeUnknown == 0
FileTypeFile == 1
FileTypeDirectory == 2
FileTypeSymbolicLink == 64

\* (await vscode.workspace.fs.stat(uri)).type of a resource that exists;
\* Makefile is a symbolic link to a file, dev is neither file nor directory
StatType(key) ==
    CASE key = "file:///w/a.py"     -> FileTypeFile
      [] key = "file:///w/Makefile" -> FileTypeFile + FileTypeSymbolicLink
      [] key = "file:///w/d"        -> FileTypeDirectory
      [] key = "file:///w/dev"      -> FileTypeUnknown
      [] OTHER                      -> FileTypeFile

\* stat rejects (throws at the await) when the resource does not exist
StatThrows(key) == key \in DynKeys /\ ~fsExists[key]

\* vscode.workspace.asRelativePath(uri, false)
RelPath(key) ==
    CASE key = "file:///w/a.py"     -> <<"a", ".", "p", "y">>
      [] key = "file:///w/Makefile" -> <<"M", "a", "k", "e", "f", "i", "l", "e">>
      [] key = "file:///w/d"        -> <<"d">>
      [] key = "file:///w/dev"      -> <<"d", "e", "v">>
      [] OTHER                      -> <<"o", ".", "t", "x", "t">>

\* entry.uri.fsPath
FsPath(key) == <<"/", "w", "/">> \o RelPath(key)

NoPost == [type |-> "none"]
NoFile == [path |-> <<>>, content |-> <<>>, written |-> FALSE]

(***************************************************************************)
(* notifyEntries (lines 251-261): the snapshot message, or nothing when no *)
(* view is attached.                                                       *)
(***************************************************************************)
Snapshot(es) ==
    [i \in 1..Len(es) |->
        [key |-> es[i].key, relativePath |-> es[i].relativePath, type |-> es[i].type]]

\* the value of `posted` after notifyEntries(status) on registry es
notifyEntries(es, status, before) ==
    IF ~view THEN before
    ELSE [type |-> "entries", entries |-> Snapshot(es), status |-> status]

\* how many messages one call of notifyEntries posts
Posts(n) == IF view THEN n ELSE 0

NoStatus == "undefined"

Note(kind, msg, n) == [kind |-> kind, msg |-> msg, n |-> n]

\* a handler segment: which one, its outcome, whether the handler returned in it,
\* and how many snapshot messages it posted
\* batch is the `incoming` array of a handleAdd call in its first segment
OpAdd(name, arg, ret, posts, batch) ==
    [op |-> name, arg |-> arg, ret |-> ret, posts |-> posts, batch |-> batch]

Op(name, arg, ret, posts) == OpAdd(name, arg, ret, posts, <<>>)

KeysOf(es) == {es[i].key : i \in 1..Len(es)}

\* position of key k in the registry (0 when absent)
IndexOf(es, k) ==
    IF k \in KeysOf(es) THEN CHOOSE i \in 1..Len(es) : es[i].key = k ELSE 0

(***************************************************************************)
(* The iterator of `this.entries.values()` held by a pack in its           *)
(* validation loop is live: `cursor` is the number of live entries at or   *)
(* before its position.  A deletion at or before the position moves it.    *)
(***************************************************************************)
\* the cursor after the keys `gone` were deleted from registry es
CursorAfterDeletes(cursor, es, gone) ==
    Cardinality({i \in 1..cursor : i <= Len(es) /\ es[i].key \notin gone})

\* the packs in flight after the keys `gone` were deleted from registry es
PacksAfterDeletes(q, es, gone) ==
    [i \in 1..Len(q) |->
        IF q[i].phase = "Validating"
        THEN [q[i] EXCEPT !.cursor = CursorAfterDeletes(q[i].cursor, es, gone)]
        ELSE q[i]]

NoTag == <<"unset">>
NoDate == [year |-> 0, month |-> 0, date |-> 0, hours |-> 0, minutes |-> 0, seconds |-> 0]
NoStamp == [timestamp |-> <<>>, mdPath |-> <<>>]

\* the provider after its constructor (lines 45-49), no view attached
ProviderInit ==
    /\ entries = <<>>
    /\ view = FALSE
    /\ posted = NoPost
    /\ fsExists = [k \in DynKeys |-> TRUE]
    /\ hasRoot \in BOOLEAN
    /\ addQ = <<>>
    /\ packQ = <<>>
    /\ outFile = NoFile
    /\ searchDir = FALSE
    /\ lastOp = Op("init", NoKey, TRUE, 0)
    /\ notes = <<>>

Init ==
    /\ ProviderInit
    /\ tagIn = <<>>
    /\ tagOut = NoTag
    /\ stampIn = NoDate
    /\ stampOut = NoStamp

(***************************************************************************)
(* The environment.                                                        *)
(***************************************************************************)
\* a resource is deleted or (re)created outside the extension
FsChange(k) ==
    /\ fsExists' = [fsExists EXCEPT ![k] = ~fsExists[k]]
    /\ lastOp' = Op("fs", NoKey, TRUE, 0)
    /\ notes' = <<>>
    /\ outFile' = NoFile
    /\ UNCHANGED <<entries, view, posted, hasRoot, addQ, packQ, searchDir>>
    /\ UNCHANGED tagVars

\* the workspace folder is closed or opened
RootChange ==
    /\ hasRoot' = ~hasRoot
    /\ lastOp' = Op("root", NoKey, TRUE, 0)
    /\ notes' = <<>>
    /\ outFile' = NoFile
    /\ UNCHANGED <<entries, view, posted, fsExists, addQ, packQ, searchDir>>
    /\ UNCHANGED tagVars

(***************************************************************************)
(* resolveWebviewView (lines 50-78) and refresh (79-81).                   *)
(***************************************************************************)
resolveWebviewView ==
    /\ view' = TRUE
    /\ posted' = [type |-> "entries", entries |-> Snapshot(entries), status |-> NoStatus]
    /\ lastOp' = Op("resolveWebviewView", NoKey, TRUE, 1)
    /\ notes' = <<>>
    /\ outFile' = NoFile
    /\ UNCHANGED <<entries, fsExists, hasRoot, addQ, packQ, searchDir>>
    /\ UNCHANGED tagVars

refresh ==
    /\ posted' = notifyEntries(entries, NoStatus, posted)
    /\ lastOp' = Op("refresh", NoKey, TRUE, Posts(1))
    /\ notes' = <<>>
    /\ outFile' = NoFile
    /\ UNCHANGED <<entries, view, fsExists, hasRoot, addQ, packQ, searchDir>>
    /\ UNCHANGED tagVars

\* clearAll without the early return of lines 83-86
clearAllNoGuard ==
    /\ entries' = <<>>
    /\ packQ' = PacksAfterDeletes(packQ, entries, KeysOf(entries))
    /\ posted' = notifyEntries(<<>>, NoStatus, posted)
    /\ lastOp' = Op("clearAll", "cleared", TRUE, Posts(1))
    /\ notes' = <<>>
    /\ outFile' = NoFile
    /\ UNCHANGED <<view, fsExists, hasRoot, addQ, searchDir>>
    /\ UNCHANGED tagVars

(***************************************************************************)
(* clearAll (lines 82-89).                                                 *)
(***************************************************************************)
clearAll ==
    /\ IF Len(entries) = 0
       THEN /\ notes' = <<Note("info", "Zip Packager list is already empty.", 0)>>
            /\ lastOp' = Op("clearAll", "already empty", TRUE, 0)
            /\ UNCHANGED <<entries, posted, packQ>>
       ELSE /\ entries' = <<>>
            /\ packQ' = PacksAfterDeletes(packQ, entries, KeysOf(entries))
            /\ posted' = notifyEntries(<<>>, NoStatus, posted)
            /\ lastOp' = Op("clearAll", "cleared", TRUE, Posts(1))
            /\ notes' = <<>>
    /\ outFile' = NoFile
    /\ UNCHANGED <<view, fsExists, hasRoot, addQ, searchDir>>
    /\ UNCHANGED tagVars

\* removeEntry on a registry kept as an array, deleting by moving the last
\* entry into the gap
removeEntrySwap(key) ==
    /\ IF key \notin KeysOf(entries)
       THEN /\ lastOp' = Op("removeEntry", key, TRUE, 0)
            /\ UNCHANGED <<entries, posted, packQ>>
       ELSE /\ entries' = LET p == IndexOf(entries, key)
                              n == Len(entries)
                          IN  [i \in 1..(n - 1) |-> IF i = p THEN entries[n] ELSE entries[i]]
            /\ packQ' = PacksAfterDeletes(packQ, entries, {key})
            /\ posted' = notifyEntries(entries', NoStatus, posted)
            /\ lastOp' = Op("removeEntry", key, TRUE, Posts(1))
    /\ notes' = <<>>
    /\ outFile' = NoFile
    /\ UNCHANGED <<view, fsExists, hasRoot, addQ, searchDir>>
    /\ UNCHANGED tagVars

\* removeEntry reaching into the add calls in progress: the key is taken out
\* of what they have resolved as well
removeEntryCancelsAdds(key) ==
    /\ IF key \notin KeysOf(entries)
       THEN /\ lastOp' = Op("removeEntry", key, TRUE, 0)
            /\ UNCHANGED <<entries, posted, packQ>>
       ELSE /\ entries' = SelectSeq(entries, LAMBDA e : e.key # key)
            /\ packQ' = PacksAfterDeletes(packQ, entries, {key})
            /\ posted' = notifyEntries(entries', NoStatus, posted)
            /\ lastOp' = Op("removeEntry", key, TRUE, Posts(1))
    /\ addQ' = [i \in 1..Len(addQ) |->
                   [addQ[i] EXCEPT !.resolved = SelectSeq(addQ[i].resolved, LAMBDA e : e.key # key),
                                   !.seen = addQ[i].seen \ {key}]]
    /\ notes' = <<>>
    /\ outFile' = NoFile
    /\ UNCHANGED <<view, fsExists, hasRoot, searchDir>>
    /\ UNCHANGED tagVars

(***************************************************************************)
(* removeEntry (lines 90-95).                                              *)
(***************************************************************************)
removeEntry(key) ==
    /\ IF key \notin KeysOf(entries)
       THEN /\ lastOp' = Op("removeEntry", key, TRUE, 0)
            /\ UNCHANGED <<entries, posted, packQ>>
       ELSE /\ entries' = SelectSeq(entries, LAMBDA e : e.key # key)
            /\ packQ' = PacksAfterDeletes(packQ, entries, {key})
            /\ posted' = notifyEntries(entries', NoStatus, posted)
            /\ lastOp' = Op("removeEntry", key, TRUE, Posts(1))
    /\ notes' = <<>>
    /\ outFile' = NoFile
    /\ UNCHANGED <<view, fsExists, hasRoot, addQ, searchDir>>
    /\ UNCHANGED tagVars

(***************************************************************************)
(* handleAdd (lines 96-153).  `rawUris` is the message's `uris` field:     *)
(* an array, a string, or anything else.                                   *)
(***************************************************************************)
RawUris ==
    {[kind |-> "array", items |-> b] : b \in SeqsUpTo(Raws, MaxBatch) \cup {<<>>}}
    \cup {[kind |-> "string", items |-> <<r>>] : r \in Raws}
    \cup {[kind |-> "other", items |-> <<>>]}

\* line 97
Incoming(rawUris) ==
    IF rawUris.kind = "array" THEN rawUris.items
    ELSE IF rawUris.kind = "string" THEN rawUris.items
    ELSE <<>>

\* lines 118-123: the entry type of a stat result, "undefined" when neither bit is set
TypeOfStat(statType) ==
    IF BitAnd(statType, FileTypeFile) # 0 THEN "file"
    ELSE IF BitAnd(statType, FileTypeDirectory) # 0 THEN "directory"
    ELSE "undefined"

\* this.entries.set deleting a present key and setting it anew, at the end
MapSetMoveToEnd(es, entry) ==
    Append(SelectSeq(es, LAMBDA e : e.key # entry.key), entry)

\* this.entries.set(entry.key, entry): a present key keeps its position
MapSet(es, entry) ==
    IF entry.key \in KeysOf(es)
    THEN [i \in 1..Len(es) |-> IF es[i].key = entry.key THEN entry ELSE es[i]]
    ELSE Append(es, entry)

\* lines 141-143 as a bug would have them: the registry is rebuilt from the batch
MapSetAllRebuild(es, resolved) ==
    IF resolved = <<>> THEN es ELSE resolved

RECURSIVE MapSetAllBackwards(_, _)
\* lines 141-143 walking the batch from its end
MapSetAllBackwards(es, resolved) ==
    IF resolved = <<>> THEN es
    ELSE MapSetAllBackwards(MapSet(es, resolved[Len(resolved)]), SubSeq(resolved, 1, Len(resolved) - 1))

RECURSIVE MapSetAll(_, _)
\* lines 141-143
MapSetAll(es, resolved) ==
    IF resolved = <<>> THEN es
    ELSE MapSetAll(MapSet(es, Head(resolved)), Tail(resolved))

RECURSIVE AddScan(_)
\* lines 105-115: the loop runs on, without suspending, over the locators that
\* are skipped before the stat: falsy ones and those outside the workspace.
\* t.rest comes back starting at the locator whose stat is awaited (or empty).
AddScan(t) ==
    IF t.rest = <<>> THEN t
    ELSE LET raw == Head(t.rest) IN
         IF raw = "" THEN AddScan([t EXCEPT !.rest = Tail(t.rest)])
         ELSE IF ~InWorkspace(UriKey(raw))
              THEN AddScan([t EXCEPT !.rest = Tail(t.rest), !.outsideWorkspace = TRUE])
              ELSE t

\* the catch block of lines 136-139
AddCatch ==
    <<Note("log", "Failed to add item", 0),
      Note("error", "Unable to add one or more items. See Zip Packager output for details.", 0)>>

\* lines 116-135: which way the loop body goes once the awaited stat of
\* Head(t.rest) settled, on registry es
AddBranch(t, es) ==
    LET key == UriKey(Head(t.rest))
    IN  IF StatThrows(key) THEN "thrown"
        ELSE IF TypeOfStat(StatType(key)) = "undefined" THEN "unsupported"
        ELSE IF key \in KeysOf(es) \/ key \in t.seen THEN "present"
        ELSE "resolved"

\* the loop body with the try around the whole loop: a throwing stat ends the loop
AddAfterStatAbort(t, es) ==
    LET key == UriKey(Head(t.rest))
        branch == AddBranch(t, es)
        next == [t EXCEPT !.rest = Tail(t.rest)]
    IN  IF branch = "thrown" THEN [t EXCEPT !.rest = <<>>]
        ELSE IF branch = "unsupported" THEN [next EXCEPT !.unsupported = TRUE]
        ELSE IF branch = "present" THEN next
        ELSE [next EXCEPT !.seen = t.seen \cup {key},
                          !.resolved = Append(t.resolved,
                              [key |-> key, relativePath |-> RelPath(key),
                               type |-> TypeOfStat(StatType(key))])]

\* lines 116-139: the loop body after the awaited stat of Head(t.rest) settled
AddAfterStat(t, es) ==
    LET key == UriKey(Head(t.rest))
        branch == AddBranch(t, es)
        next == [t EXCEPT !.rest = Tail(t.rest)]
    IN  IF branch = "thrown" THEN next
        ELSE IF branch = "unsupported" THEN [next EXCEPT !.unsupported = TRUE]
        ELSE IF branch = "present" THEN next
        ELSE [next EXCEPT !.seen = t.seen \cup {key},
                          !.resolved = Append(t.resolved,
                              [key |-> key, relativePath |-> RelPath(key),
                               type |-> TypeOfStat(StatType(key))])]

\* lines 101-104
NewAdd(incoming) ==
    [incoming |-> incoming, rest |-> incoming, seen |-> {}, resolved |-> <<>>,
     outsideWorkspace |-> FALSE, unsupported |-> FALSE]

\* lines 144-149
AddWarnings(t) ==
    (IF t.outsideWorkspace
     THEN <<Note("warning", "Only workspace files or folders can be added.", 0)>> ELSE <<>>)
    \o (IF t.unsupported
        THEN <<Note("warning", "Only files and folders are supported.", 0)>> ELSE <<>>)

\* lines 141-152 with the snapshot posted whether or not anything was resolved
AddFinishAlwaysNotify(t, name, branch, log) ==
    /\ entries' = MapSetAll(entries, t.resolved)
    /\ notes' = log \o AddWarnings(t)
    /\ posted' = notifyEntries(entries', "Items added.", posted)
    /\ lastOp' = OpAdd(name, branch, TRUE, Posts(1), IF name = "handleAdd" THEN t.incoming ELSE <<>>)

\* lines 141-152: the loop is over; `log` is what this segment has emitted so far
AddFinish(t, name, branch, log) ==
    /\ entries' = MapSetAll(entries, t.resolved)
    /\ notes' = log \o AddWarnings(t)
    /\ IF Len(t.resolved) > 0
       THEN /\ posted' = notifyEntries(entries', "Items added.", posted)
            /\ lastOp' = OpAdd(name, branch, TRUE, Posts(1), IF name = "handleAdd" THEN t.incoming ELSE <<>>)
       ELSE /\ posted' = posted
            /\ lastOp' = OpAdd(name, branch, TRUE, 0, IF name = "handleAdd" THEN t.incoming ELSE <<>>)

\* the message handler calls handleAdd; it runs up to its first await
AddStart(rawUris) ==
    LET incoming == Incoming(rawUris)
        t == AddScan(NewAdd(incoming))
    IN  /\ view
        /\ IF Len(incoming) = 0
           THEN /\ lastOp' = OpAdd("handleAdd", "empty", TRUE, 0, incoming)
                /\ notes' = <<>>
                /\ UNCHANGED <<entries, posted, addQ>>
           ELSE IF t.rest = <<>>
           THEN /\ AddFinish(t, "handleAdd", "skipped", <<>>)
                /\ UNCHANGED addQ
           ELSE /\ addQ' = Append(addQ, t)
                /\ lastOp' = OpAdd("handleAdd", "stat", FALSE, 0, incoming)
                /\ notes' = <<>>
                /\ UNCHANGED <<entries, posted>>
        /\ outFile' = NoFile
        /\ UNCHANGED <<view, fsExists, hasRoot, packQ, searchDir>>
        /\ UNCHANGED tagVars

RemoveAt(q, i) == SubSeq(q, 1, i - 1) \o SubSeq(q, i + 1, Len(q))

\* handleAdd setting each entry as soon as it is resolved
AddResumeEager(i) ==
    LET branch == AddBranch(addQ[i], entries)
        log == IF branch = "thrown" THEN AddCatch ELSE <<>>
        t == AddScan(AddAfterStat(addQ[i], entries))
    IN  /\ i \in 1..Len(addQ)
        /\ IF t.rest = <<>>
           THEN /\ AddFinish(t, "handleAdd:stat", branch, log)
                /\ addQ' = RemoveAt(addQ, i)
           ELSE /\ addQ' = [addQ EXCEPT ![i] = t]
                /\ lastOp' = Op("handleAdd:stat", branch, FALSE, 0)
                /\ notes' = log
                /\ entries' = MapSetAll(entries, t.resolved)
                /\ UNCHANGED posted
        /\ outFile' = NoFile
        /\ UNCHANGED <<view, fsExists, hasRoot, packQ, searchDir>>
        /\ UNCHANGED tagVars

\* the awaited stat of add i settles and the handler runs to its next await or its end
AddResume(i) ==
    LET branch == AddBranch(addQ[i], entries)
        log == IF branch = "thrown" THEN AddCatch ELSE <<>>
        t == AddScan(AddAfterStat(addQ[i], entries))
    IN  /\ i \in 1..Len(addQ)
        /\ IF t.rest = <<>>
           THEN /\ AddFinish(t, "handleAdd:stat", branch, log)
                /\ addQ' = RemoveAt(addQ, i)
           ELSE /\ addQ' = [addQ EXCEPT ![i] = t]
                /\ lastOp' = Op("handleAdd:stat", branch, FALSE, 0)
                /\ notes' = log
                /\ UNCHANGED <<entries, posted>>
        /\ outFile' = NoFile
        /\ UNCHANGED <<view, fsExists, hasRoot, packQ, searchDir>>
        /\ UNCHANGED tagVars

(***************************************************************************)
(* The files below the workspace folder /w that pack reads.                *)
(*   /w/a.py  /w/Makefile  /w/d/x.txt  /w/d/sub/y.txt  /w/d/sub/pipe       *)
(* pipe is a FIFO: neither stat.isDirectory() nor stat.isFile().           *)
(***************************************************************************)
BQ == "U+0060"    \* the backtick character

Join(a, b) == a \o <<"/">> \o b     \* path.join on plain names

\* the names fs.readdir returns for a directory
Children(dirPath) ==
    CASE dirPath = <<"/", "w", "/", "d">> -> {<<"x", ".", "t", "x", "t">>, <<"s", "u", "b">>}
      [] dirPath = <<"/", "w", "/", "d", "/", "s", "u", "b">> ->
             {<<"y", ".", "t", "x", "t">>, <<"p", "i", "p", "e">>}
      [] OTHER -> {}

DirPaths == {<<"/", "w", "/", "d">>, <<"/", "w", "/", "d", "/", "s", "u", "b">>}

\* what fs.stat says of an item of a directory
ItemKind(itemPath) ==
    IF itemPath \in DirPaths THEN "directory"
    ELSE IF itemPath = <<"/", "w", "/", "d", "/", "s", "u", "b", "/", "p", "i", "p", "e">> THEN "other"
    ELSE "file"

\* fs.readFile(path, 'utf-8')
FileContent(path) ==
    CASE path = <<"/", "w", "/", "a", ".", "p", "y">> -> <<"p", "r", "i", "n", "t", "(", "1", ")">>
      [] path = <<"/", "w", "/", "M", "a", "k", "e", "f", "i", "l", "e">> -> <<"a", ":", "\n", "\t", BQ, BQ, BQ, "\n">>
      [] path = <<"/", "w", "/", "d", "/", "x", ".", "t", "x", "t">> -> <<>>
      [] path = <<"/", "w", "/", "d", "/", "s", "u", "b", "/", "y", ".", "t", "x", "t">> -> <<"y", "\n", "-", "-", "-">>
      [] OTHER -> <<"?">>

\* the orders in which fs.readdir may list each directory
Perms(S) == {p \in [1..Cardinality(S) -> S] : \A i, j \in 1..Cardinality(S) : i # j => p[i] # p[j]}
Orders == {o \in [DirPaths -> UNION {Perms(Children(d)) : d \in DirPaths}] :
              \A d \in DirPaths : o[d] \in Perms(Children(d))}

(***************************************************************************)
(* path.extname (node), String.prototype.slice/padStart, Number.prototype.toString.  *)
(***************************************************************************)
RECURSIVE Basename(_)
\* the last portion of a path
Basename(p) ==
    IF \E i \in 1..Len(p) : p[i] = "/"
    THEN Basename(Tail(p))
    ELSE p

\* path.extname: from the last "." of the last portion to its end; "" when there
\* is no ".", when the only "." is the first character, and for ".."
ExtName(p) ==
    LET base == Basename(p)
        dots == {i \in 1..Len(base) : base[i] = "."}
        startDot == CHOOSE i \in dots : \A j \in dots : j <= i
    IN  IF dots = {} THEN <<>>
        ELSE IF startDot = 1 THEN <<>>
        ELSE IF base = <<".", ".">> THEN <<>>
        ELSE SubSeq(base, startDot, Len(base))

\* the tag without the fallback to 'txt'
LangTagNoDefault(name) ==
    IF Len(ExtName(name)) = 0 THEN <<>> ELSE Tail(ExtName(name))

\* path.extname(name).slice(1) || 'txt'   (lines 224, 244)
LangTag(name) ==
    LET ext == ExtName(name)
        sliced == IF Len(ext) = 0 THEN <<>> ELSE Tail(ext)
    IN  IF sliced = <<>> THEN <<"t", "x", "t">> ELSE sliced

Digit(n) == CASE n = 0 -> "0" [] n = 1 -> "1" [] n = 2 -> "2" [] n = 3 -> "3" [] n = 4 -> "4"
              [] n = 5 -> "5" [] n = 6 -> "6" [] n = 7 -> "7" [] n = 8 -> "8" [] n = 9 -> "9"

RECURSIVE toString(_)
\* value.toString() of a non-negative integer
toString(n) == IF n < 10 THEN <<Digit(n)>> ELSE Append(toString(n \div 10), Digit(n % 10))

RECURSIVE PadStart(_, _, _)
\* s.padStart(width, fill) with a one-character fill
PadStart(s, width, fill) == IF Len(s) >= width THEN s ELSE PadStart(<<fill>> \o s, width, fill)

\* pad without the padStart
padNoFill(value) == toString(value)

\* line 263
pad(value) == PadStart(toString(value), 2, "0")

\* formatTimestamp (lines 262-265); date.month is getMonth(), 0-based
formatTimestamp(date) ==
    toString(date.year) \o pad(date.month + 1) \o pad(date.date) \o <<"-">>
    \o pad(date.hours) \o pad(date.minutes) \o pad(date.seconds)

\* date.toLocaleString('zh-CN'): y/m/d hh:mm:ss, month and day not padded
toLocaleString(date) ==
    toString(date.year) \o <<"/">> \o toString(date.month + 1) \o <<"/">> \o toString(date.date)
    \o <<" ">> \o pad(date.hours) \o <<":">> \o pad(date.minutes) \o <<":">> \o pad(date.seconds)

Date(y, mo, d, h, mi, s) == [year |-> y, month |-> mo, date |-> d, hours |-> h, minutes |-> mi, seconds |-> s]

\* the value of `new Date()` at line 211, and one second later
Dates == {Date(2024, 0, 5, 9, 3, 7)}
Tick(date) == [date EXCEPT !.seconds = date.seconds + 1]

(***************************************************************************)
(* createArchive (lines 207-231) and addDirectoryToMarkdown (232-250):     *)
(* the text they build.                                                    *)
(***************************************************************************)
\* line 213
DocHeader(date) ==
    <<"# ", "U+6587U+4EF6U+96C6U+5408", "\n", "\n", "U+751FU+6210U+65F6U+95F4", ": ">>
    \o toLocaleString(date) \o <<"\n", "\n", "-", "-", "-", "\n", "\n">>

\* a section without its closing separator rule
FileSectionNoRule(relativePath, ext, content) ==
    <<"## ", "U+6587U+4EF6", ": ", BQ>> \o relativePath \o <<BQ, "\n", "\n">>
    \o <<BQ, BQ, BQ>> \o ext \o <<"\n">> \o content \o <<"\n", BQ, BQ, BQ, "\n", "\n">>

\* lines 225-226 and 245-246
FileSection(relativePath, ext, content) ==
    <<"## ", "U+6587U+4EF6", ": ", BQ>> \o relativePath \o <<BQ, "\n", "\n">>
    \o <<BQ, BQ, BQ>> \o ext \o <<"\n">> \o content \o <<"\n", BQ, BQ, BQ, "\n", "\n", "-", "-", "-", "\n", "\n">>

\* lines 209-212
MdPath(date) ==
    <<"/", "w", "/", "search", "/", "bundle-">> \o formatTimestamp(date) \o <<".md">>

RECURSIVE addDirectoryToMarkdown(_, _, _), DirItems(_, _, _, _), DirItemsShallow(_, _, _, _)
\* the loop over the listed items without the recursion into directories
DirItemsShallow(items, dirPath, relativePath, ord) ==
    IF items = <<>> THEN <<>>
    ELSE LET item == Head(items)
             itemPath == Join(dirPath, item)
             itemRelativePath == Join(relativePath, item)
             piece == IF ItemKind(itemPath) = "file"
                      THEN FileSection(itemRelativePath, LangTag(item), FileContent(itemPath))
                      ELSE <<>>
         IN  piece \o DirItemsShallow(Tail(items), dirPath, relativePath, ord)

\* lines 235-248: the loop over the listed items
DirItems(items, dirPath, relativePath, ord) ==
    IF items = <<>> THEN <<>>
    ELSE LET item == Head(items)
             itemPath == Join(dirPath, item)
             itemRelativePath == Join(relativePath, item)
             kind == ItemKind(itemPath)
             piece == IF kind = "directory"
                      THEN addDirectoryToMarkdown(itemPath, itemRelativePath, ord)
                      ELSE IF kind = "file"
                      THEN FileSection(itemRelativePath, LangTag(item), FileContent(itemPath))
                      ELSE <<>>
         IN  piece \o DirItems(Tail(items), dirPath, relativePath, ord)

\* lines 232-250, with fs.readdir listing each directory in the order ord gives
addDirectoryToMarkdown(dirPath, relativePath, ord) ==
    DirItems(ord[dirPath], dirPath, relativePath, ord)

\* an append that puts the new text in front
GrowFront(mdContent, piece) == piece \o mdContent

\* lines 219 and 226: mdContent += piece
Grow(mdContent, piece) == mdContent \o piece

\* lines 215-227: what one entry adds to mdContent
EntryContent(entry, ord) ==
    IF entry.type = "directory"
    THEN addDirectoryToMarkdown(FsPath(entry.key), entry.relativePath, ord)
    ELSE FileSection(entry.relativePath, LangTag(entry.relativePath), FileContent(FsPath(entry.key)))

(***************************************************************************)
(* packEntries (lines 154-206).                                            *)
(***************************************************************************)
NoEntry == [key |-> NoKey, relativePath |-> <<>>, type |-> "undefined"]

NewPack ==
    [phase |-> "Validating", cursor |-> 1, entry |-> entries[1],
     existing |-> <<>>, missing |-> <<>>, idx |-> 0, mdPath |-> <<>>, mdContent |-> <<>>]

\* a catch block that logs and shows nothing to the user
PackCatchLogOnly ==
    <<Note("log", "Packaging failed", 0)>>

\* lines 201-204
PackCatch ==
    <<Note("log", "Packaging failed", 0),
      Note("error", "Failed to create markdown file. Check Zip Packager output for details.", 0)>>

\* packEntries with the two guards of lines 155-163 in the other order
PackStartRootFirst ==
    /\ IF ~hasRoot
       THEN /\ notes' = <<Note("error", "Open a workspace folder to use Zip Packager.", 0)>>
            /\ lastOp' = Op("packEntries", "NoRoot", TRUE, 0)
            /\ UNCHANGED packQ
       ELSE IF Len(entries) = 0
       THEN /\ notes' = <<Note("info", "Add files or folders before packaging.", 0)>>
            /\ lastOp' = Op("packEntries", "EmptyList", TRUE, 0)
            /\ UNCHANGED packQ
       ELSE /\ packQ' = Append(packQ, NewPack)
            /\ notes' = <<>>
            /\ lastOp' = Op("packEntries", "Validating", FALSE, 0)
    /\ outFile' = NoFile
    /\ UNCHANGED <<entries, view, posted, fsExists, hasRoot, addQ, searchDir>>
    /\ UNCHANGED tagVars

\* packEntries without the guard of lines 159-163
PackStartNoRootCheck ==
    /\ IF Len(entries) = 0
       THEN /\ notes' = <<Note("info", "Add files or folders before packaging.", 0)>>
            /\ lastOp' = Op("packEntries", "EmptyList", TRUE, 0)
            /\ UNCHANGED packQ
       ELSE /\ packQ' = Append(packQ, NewPack)
            /\ notes' = <<>>
            /\ lastOp' = Op("packEntries", "Validating", FALSE, 0)
    /\ outFile' = NoFile
    /\ UNCHANGED <<entries, view, posted, fsExists, hasRoot, addQ, searchDir>>
    /\ UNCHANGED tagVars

\* packEntries with a guard that refuses a request while a pack is in flight
PackStartSingleFlight ==
    /\ IF Len(entries) = 0
       THEN /\ notes' = <<Note("info", "Add files or folders before packaging.", 0)>>
            /\ lastOp' = Op("packEntries", "EmptyList", TRUE, 0)
            /\ UNCHANGED packQ
       ELSE IF ~hasRoot
       THEN /\ notes' = <<Note("error", "Open a workspace folder to use Zip Packager.", 0)>>
            /\ lastOp' = Op("packEntries", "NoRoot", TRUE, 0)
            /\ UNCHANGED packQ
       ELSE IF Len(packQ) > 0
       THEN /\ notes' = <<>>
            /\ lastOp' = Op("packEntries", "Busy", TRUE, 0)
            /\ UNCHANGED packQ
       ELSE /\ packQ' = Append(packQ, NewPack)
            /\ notes' = <<>>
            /\ lastOp' = Op("packEntries", "Validating", FALSE, 0)
    /\ outFile' = NoFile
    /\ UNCHANGED <<entries, view, posted, fsExists, hasRoot, addQ, searchDir>>
    /\ UNCHANGED tagVars

\* lines 154-168: the guards, then the first stat is awaited
PackStart ==
    /\ IF Len(entries) = 0
       THEN /\ notes' = <<Note("info", "Add files or folders before packaging.", 0)>>
            /\ lastOp' = Op("packEntries", "EmptyList", TRUE, 0)
            /\ UNCHANGED packQ
       ELSE IF ~hasRoot
       THEN /\ notes' = <<Note("error", "Open a workspace folder to use Zip Packager.", 0)>>
            /\ lastOp' = Op("packEntries", "NoRoot", TRUE, 0)
            /\ UNCHANGED packQ
       ELSE /\ packQ' = Append(packQ, NewPack)
            /\ notes' = <<>>
            /\ lastOp' = Op("packEntries", "Validating", FALSE, 0)
    /\ outFile' = NoFile
    /\ UNCHANGED <<entries, view, posted, fsExists, hasRoot, addQ, searchDir>>
    /\ UNCHANGED tagVars

\* a pruning loop that stops after the first missing entry
PruneFirstOnly(es, missing) ==
    IF missing = <<>> THEN es ELSE SelectSeq(es, LAMBDA e : e.key # missing[1].key)

\* lines 175-177: this.entries.delete(lost.key) for every lost of missing
Prune(es, missing) ==
    SelectSeq(es, LAMBDA e : e.key \notin KeysOf(missing))

\* the test of line 182 made on the other list
NothingLeftWrongList(existing, missing) == Len(missing) = 0

\* line 182: existing.length === 0
NothingLeft(existing, missing) == Len(existing) = 0

\* line 180
SkippedWarning(missing) ==
    IF Len(missing) > 0
    THEN <<Note("warning", "Skipped n missing item(s).", Len(missing))>> ELSE <<>>

\* the validation loop pruning the registry without the notifyEntries of line 179
PackStatNoRefresh(i) ==
    LET t == packQ[i]
        found == ~StatThrows(t.entry.key)
        existing == IF found THEN Append(t.existing, t.entry) ELSE t.existing
        missing == IF found THEN t.missing ELSE Append(t.missing, t.entry)
        lost == KeysOf(missing)
        kept == Prune(entries, missing)
        others == PacksAfterDeletes(packQ, entries, lost)
    IN  /\ t.phase = "Validating"
        /\ IF t.cursor < Len(entries)
           THEN /\ packQ' = [packQ EXCEPT ![i] = [t EXCEPT !.cursor = t.cursor + 1,
                                                           !.entry = entries[t.cursor + 1],
                                                           !.existing = existing,
                                                           !.missing = missing]]
                /\ notes' = <<>>
                /\ lastOp' = Op("packEntries:stat", "Validating", FALSE, 0)
                /\ UNCHANGED <<entries, posted>>
           ELSE /\ entries' = kept
                /\ IF NothingLeft(existing, missing)
                   THEN /\ packQ' = RemoveAt(others, i)
                        /\ posted' = notifyEntries(kept, NoStatus, posted)
                        /\ notes' = SkippedWarning(missing)
                                    \o <<Note("error", "No valid items remain for packaging.", 0)>>
                        /\ lastOp' = Op("packEntries:stat", "NothingToPack", TRUE,
                                        Posts((IF Len(missing) > 0 THEN 1 ELSE 0) + 1))
                   ELSE /\ packQ' = [others EXCEPT ![i] = [t EXCEPT !.phase = "Serializing",
                                                                    !.cursor = 0,
                                                                    !.entry = NoEntry,
                                                                    !.existing = existing,
                                                                    !.missing = missing]]
                        /\ posted' = posted
                        /\ notes' = SkippedWarning(missing)
                        /\ lastOp' = Op("packEntries:stat", "Serializing", FALSE, 0)
        /\ outFile' = NoFile
        /\ UNCHANGED <<view, fsExists, hasRoot, addQ, searchDir>>
        /\ UNCHANGED tagVars

\* lines 168-186: the awaited stat of pack i settles; the loop goes on to the next
\* entry of the live iterator or, at its end, prunes and starts createArchive
PackStat(i) ==
    LET t == packQ[i]
        found == ~StatThrows(t.entry.key)
        existing == IF found THEN Append(t.existing, t.entry) ELSE t.existing
        missing == IF found THEN t.missing ELSE Append(t.missing, t.entry)
        lost == KeysOf(missing)
        kept == Prune(entries, missing)
        others == PacksAfterDeletes(packQ, entries, lost)
    IN  /\ t.phase = "Validating"
        /\ IF t.cursor < Len(entries)
           THEN /\ packQ' = [packQ EXCEPT ![i] = [t EXCEPT !.cursor = t.cursor + 1,
                                                           !.entry = entries[t.cursor + 1],
                                                           !.existing = existing,
                                                           !.missing = missing]]
                /\ notes' = <<>>
                /\ lastOp' = Op("packEntries:stat", "Validating", FALSE, 0)
                /\ UNCHANGED <<entries, posted>>
           ELSE /\ entries' = kept
                /\ IF NothingLeft(existing, missing)
                   THEN /\ packQ' = RemoveAt(others, i)
                        /\ posted' = notifyEntries(kept, NoStatus, posted)
                        /\ notes' = SkippedWarning(missing)
                                    \o <<Note("error", "No valid items remain for packaging.", 0)>>
                        /\ lastOp' = Op("packEntries:stat", "NothingToPack", TRUE,
                                        Posts((IF Len(missing) > 0 THEN 1 ELSE 0) + 1))
                   ELSE /\ packQ' = [others EXCEPT ![i] = [t EXCEPT !.phase = "Serializing",
                                                                    !.cursor = 0,
                                                                    !.entry = NoEntry,
                                                                    !.existing = existing,
                                                                    !.missing = missing]]
                        /\ posted' = IF Len(missing) > 0
                                     THEN notifyEntries(kept, NoStatus, posted) ELSE posted
                        /\ notes' = SkippedWarning(missing)
                        /\ lastOp' = Op("packEntries:stat", "Serializing", FALSE,
                                        Posts(IF Len(missing) > 0 THEN 1 ELSE 0))
        /\ outFile' = NoFile
        /\ UNCHANGED <<view, fsExists, hasRoot, addQ, searchDir>>
        /\ UNCHANGED tagVars

\* a catch block that starts the pack over
PackFailRestart(i, name) ==
    /\ packQ' = [packQ EXCEPT ![i] = [@ EXCEPT !.phase = "Validating", !.cursor = 0,
                                               !.existing = <<>>, !.missing = <<>>, !.idx = 0]]
    /\ notes' = PackCatch
    /\ lastOp' = Op(name, "Validating", FALSE, 0)
    /\ outFile' = NoFile
    /\ UNCHANGED <<entries, view, posted, fsExists, hasRoot, addQ>>

\* a catch block that writes what had been collected when the failure came
PackFailFlush(i, name) ==
    /\ packQ' = RemoveAt(packQ, i)
    /\ notes' = PackCatch
    /\ lastOp' = Op(name, "Failed", TRUE, 0)
    /\ outFile' = [path |-> packQ[i].mdPath, content |-> packQ[i].mdContent, written |-> TRUE]
    /\ UNCHANGED <<entries, view, posted, fsExists, hasRoot, addQ>>

\* the pack ends in the catch block of lines 201-204
PackFail(i, name) ==
    /\ packQ' = RemoveAt(packQ, i)
    /\ notes' = PackCatch
    /\ lastOp' = Op(name, "Failed", TRUE, 0)
    /\ outFile' = NoFile
    /\ UNCHANGED <<entries, view, posted, fsExists, hasRoot, addQ>>

\* lines 210-213: the awaited ensureDir settles; the header is built and the
\* first entry's read is awaited.  d1 and d2 are the two values of new Date().
PackEnsureDir(i, failed, d1, d2) ==
    LET t == packQ[i]
    IN  /\ t.phase = "Serializing" /\ t.idx = 0
        /\ IF failed
           THEN PackFail(i, "packEntries:ensureDir")
           ELSE /\ packQ' = [packQ EXCEPT ![i] = [t EXCEPT !.idx = 1,
                                                           !.mdPath = MdPath(d1),
                                                           !.mdContent = DocHeader(d2)]]
                /\ notes' = <<>>
                /\ lastOp' = Op("packEntries:ensureDir", "Serializing", FALSE, 0)
                /\ outFile' = NoFile
                /\ UNCHANGED <<entries, view, posted, fsExists, hasRoot, addQ>>
        /\ searchDir' = (searchDir \/ ~failed)
        /\ UNCHANGED tagVars

\* createArchive reading the registry instead of the list it was handed
PackEntryFromRegistry(i, ord) ==
    LET t == packQ[i]
        entry == IF t.idx <= Len(entries) THEN entries[t.idx] ELSE t.existing[t.idx]
        grown == Grow(t.mdContent, EntryContent(entry, ord))
    IN  /\ t.phase = "Serializing" /\ t.idx >= 1
        /\ IF StatThrows(entry.key)
           THEN PackFail(i, "packEntries:read")
           ELSE /\ packQ' = [packQ EXCEPT ![i] =
                                IF t.idx < Len(t.existing)
                                THEN [t EXCEPT !.idx = t.idx + 1, !.mdContent = grown]
                                ELSE [t EXCEPT !.phase = "Writing", !.mdContent = grown]]
                /\ notes' = <<>>
                /\ lastOp' = Op("packEntries:read",
                                IF t.idx < Len(t.existing) THEN "Serializing" ELSE "Writing",
                                FALSE, 0)
                /\ outFile' = NoFile
                /\ UNCHANGED <<entries, view, posted, fsExists, hasRoot, addQ>>
        /\ UNCHANGED searchDir
        /\ UNCHANGED tagVars

\* lines 214-228: the reads of entry idx settle (for a directory entry, the whole
\* walk of addDirectoryToMarkdown) and its text is appended; a read of a
\* resource that is gone rejects
PackEntry(i, ord) ==
    LET t == packQ[i]
        entry == t.existing[t.idx]
        grown == Grow(t.mdContent, EntryContent(entry, ord))
    IN  /\ t.phase = "Serializing" /\ t.idx >= 1
        /\ IF StatThrows(entry.key)
           THEN PackFail(i, "packEntries:read")
           ELSE /\ packQ' = [packQ EXCEPT ![i] =
                                IF t.idx < Len(t.existing)
                                THEN [t EXCEPT !.idx = t.idx + 1, !.mdContent = grown]
                                ELSE [t EXCEPT !.phase = "Writing", !.mdContent = grown]]
                /\ notes' = <<>>
                /\ lastOp' = Op("packEntries:read",
                                IF t.idx < Len(t.existing) THEN "Serializing" ELSE "Writing",
                                FALSE, 0)
                /\ outFile' = NoFile
                /\ UNCHANGED <<entries, view, posted, fsExists, hasRoot, addQ>>
        /\ UNCHANGED searchDir
        /\ UNCHANGED tagVars

\* lines 229-230 and 194-199: the awaited writeFile settles
PackWrite(i, failed) ==
    LET t == packQ[i]
    IN  /\ t.phase = "Writing"
        /\ IF failed
           THEN PackFail(i, "packEntries:write")
           ELSE /\ outFile' = [path |-> t.mdPath, content |-> t.mdContent, written |-> TRUE]
                /\ packQ' = RemoveAt(packQ, i)
                /\ posted' = notifyEntries(entries, NoStatus, posted)
                /\ notes' = <<Note("info", "Created basename.", 0)>>
                /\ lastOp' = Op("packEntries:write", "Done", TRUE, Posts(1))
                /\ UNCHANGED <<entries, view, fsExists, hasRoot, addQ>>
        /\ UNCHANGED searchDir
        /\ UNCHANGED tagVars

InFlight == Len(addQ) + Len(packQ)

Idle == InFlight = 0

(***************************************************************************)
(* Spec: messages and commands arrive at any time; a handler suspended at  *)
(* an await lets the synchronous handlers and the environment run.         *)
(***************************************************************************)
Next ==
    \/ \E k \in DynKeys : FsChange(k)
    \/ RootChange
    \/ resolveWebviewView
    \/ refresh
    \/ clearAll
    \/ \E key \in DynKeys : view /\ removeEntry(key)
    \/ \E rawUris \in RawUris : InFlight < MaxInFlight /\ AddStart(rawUris)
    \/ \E i \in 1..Len(addQ) : AddResume(i)
    \/ InFlight < MaxInFlight /\ PackStart
    \/ \E i \in 1..Len(packQ) : PackStat(i)
    \/ \E i \in 1..Len(packQ), failed \in BOOLEAN, d1 \in Dates : \E d2 \in {d1, Tick(d1)} :
           PackEnsureDir(i, failed, d1, d2)
    \/ \E i \in 1..Len(packQ), ord \in Orders : PackEntry(i, ord)
    \/ \E i \in 1..Len(packQ), failed \in BOOLEAN : PackWrite(i, failed)

Spec == Init /\ [][Next]_vars

\* the awaited file system call of pack i settles
PackSettles(i) ==
    \/ PackStat(i)
    \/ \E failed \in BOOLEAN, d1 \in Dates : \E d2 \in {d1, Tick(d1)} : PackEnsureDir(i, failed, d1, d2)
    \/ \E ord \in Orders : PackEntry(i, ord)
    \/ \E failed \in BOOLEAN : PackWrite(i, failed)

(***************************************************************************)
(* LiveSpec: Spec with a fixed workspace folder and single locators, where *)
(* every file system call awaited by a pack eventually returns or fails.   *)
(***************************************************************************)
LiveKeys == {"file:///w/a.py", "file:///w/d"}

SingleUris == {rawUris \in RawUris : rawUris.kind = "string" /\ rawUris.items[1] \in LiveKeys}

NextLive ==
    \/ \E k \in LiveKeys : FsChange(k)
    \/ resolveWebviewView
    \/ clearAll
    \/ \E key \in LiveKeys : view /\ removeEntry(key)
    \/ \E rawUris \in SingleUris : InFlight < MaxInFlight /\ AddStart(rawUris)
    \/ \E i \in 1..Len(addQ) : AddResume(i)
    \/ InFlight < MaxInFlight /\ PackStart
    \/ \E i \in 1..Len(packQ) : PackStat(i)
    \/ \E i \in 1..Len(packQ), failed \in BOOLEAN, d1 \in Dates : \E d2 \in {d1, Tick(d1)} :
           PackEnsureDir(i, failed, d1, d2)
    \/ \E i \in 1..Len(packQ), ord \in Orders : PackEntry(i, ord)
    \/ \E i \in 1..Len(packQ), failed \in BOOLEAN : PackWrite(i, failed)

LiveSpec ==
    /\ Init /\ [][NextLive]_vars
    /\ \A i \in 1..MaxInFlight : WF_vars(i \in 1..Len(packQ) /\ PackSettles(i))

(***************************************************************************)
(* RaceSpec: up to MaxPacks packs in flight at once on a workspace of one  *)
(* file and one directory; an add runs while no pack is in flight.         *)
(***************************************************************************)
MaxPacks == 2

NextRace ==
    \/ \E k \in LiveKeys : FsChange(k)
    \/ resolveWebviewView
    \/ clearAll
    \/ \E key \in LiveKeys : view /\ removeEntry(key)
    \/ \E rawUris \in SingleUris : Idle /\ AddStart(rawUris)
    \/ \E i \in 1..Len(addQ) : AddResume(i)
    \/ addQ = <<>> /\ Len(packQ) < MaxPacks /\ PackStart
    \/ \E i \in 1..Len(packQ) : PackStat(i)
    \/ \E i \in 1..Len(packQ), failed \in BOOLEAN, d1 \in Dates : \E d2 \in {d1, Tick(d1)} :
           PackEnsureDir(i, failed, d1, d2)
    \/ \E i \in 1..Len(packQ), ord \in Orders : PackEntry(i, ord)
    \/ \E i \in 1..Len(packQ), failed \in BOOLEAN : PackWrite(i, failed)

RaceSpec == Init /\ [][NextRace]_vars

(***************************************************************************)
(* AddsSpec: up to MaxAdds add messages in progress at once (the message   *)
(* handler of lines 59-76 is called for each message as it arrives, and    *)
(* awaits only its own handleAdd), with removes, clears and file system    *)
(* changes in between; no pack runs.                                       *)
(***************************************************************************)
MaxAdds == 2

LiveUris ==
    {rawUris \in RawUris : rawUris.kind # "other" /\ rawUris.items # <<>>
                           /\ Range(rawUris.items) \subseteq LiveKeys}

NextAdds ==
    \/ \E k \in LiveKeys : FsChange(k)
    \/ resolveWebviewView
    \/ clearAll
    \/ \E key \in LiveKeys : view /\ removeEntry(key)
    \/ \E rawUris \in LiveUris : Len(addQ) < MaxAdds /\ AddStart(rawUris)
    \/ \E i \in 1..Len(addQ) : AddResume(i)

AddsSpec == Init /\ [][NextAdds]_vars

(***************************************************************************)
(* SeqSpec: the handlers run one at a time, the file system and the        *)
(* workspace change only between two handlers, and no file system call of  *)
(* createArchive fails.                                                    *)
(***************************************************************************)
NextSeq ==
    \/ \E k \in DynKeys : Idle /\ FsChange(k)
    \/ Idle /\ RootChange
    \/ Idle /\ resolveWebviewView
    \/ Idle /\ refresh
    \/ Idle /\ clearAll
    \/ \E key \in DynKeys : Idle /\ view /\ removeEntry(key)
    \/ \E rawUris \in RawUris : Idle /\ AddStart(rawUris)
    \/ \E i \in 1..Len(addQ) : AddResume(i)
    \/ Idle /\ PackStart
    \/ \E i \in 1..Len(packQ) : PackStat(i)
    \/ \E i \in 1..Len(packQ), d1 \in Dates : \E d2 \in {d1, Tick(d1)} :
           PackEnsureDir(i, FALSE, d1, d2)
    \/ \E i \in 1..Len(packQ), ord \in Orders : PackEntry(i, ord)
    \/ \E i \in 1..Len(packQ) : PackWrite(i, FALSE)

SeqSpec == Init /\ [][NextSeq]_vars

(***************************************************************************)
(* TagSpec: the language tag as a function of the path, at its two call    *)
(* sites, on every relative path of at most MaxNameLen characters.         *)
(***************************************************************************)
MaxNameLen == 4

TagAlphabet == {"a", "B", ".", "/"}

\* relative paths of files: no empty component
ValidPath(p) ==
    /\ p[1] # "/" /\ p[Len(p)] # "/"
    /\ \A i \in 1..(Len(p) - 1) : ~(p[i] = "/" /\ p[i + 1] = "/")

Paths == {p \in SeqsUpTo(TagAlphabet, MaxNameLen) : ValidPath(p)}

TagInit ==
    /\ ProviderInit /\ ~hasRoot
    /\ tagIn \in Paths
    /\ tagOut = NoTag
    /\ stampIn = NoDate
    /\ stampOut = NoStamp

\* line 224: the tag of a file entry, from its relative path
TagOfEntry ==
    /\ tagOut = NoTag
    /\ tagOut' = <<"entry", LangTag(tagIn)>>
    /\ UNCHANGED <<tagIn, stampIn, stampOut, provider>>

\* line 244: the tag of a file found in a directory, from the item's name
TagOfItem ==
    /\ tagOut = NoTag
    /\ tagOut' = <<"item", LangTag(Basename(tagIn))>>
    /\ UNCHANGED <<tagIn, stampIn, stampOut, provider>>

TagNext ==
    \/ TagOfEntry
    \/ TagOfItem

TagSpec == TagInit /\ [][TagNext]_vars

(***************************************************************************)
(* StampSpec: the timestamp and the output path as functions of the local  *)
(* time, on dates with one- and two-digit fields and four-digit years.     *)
(***************************************************************************)
StampDates ==
    {Date(y, mo, d, h, mi, s) :
        y \in {1000, 2024, 9999}, mo \in {0, 8, 9, 11}, d \in {1, 9, 10, 30},
        h \in {0, 9, 10, 23}, mi \in {0, 9, 59}, s \in {0, 10, 59}}

StampInit ==
    /\ ProviderInit /\ hasRoot
    /\ tagIn = <<>>
    /\ tagOut = NoTag
    /\ stampIn \in StampDates
    /\ stampOut = NoStamp

\* lines 208-212: timestamp and mdPath from the value of new Date()
StampOfDate ==
    /\ stampOut = NoStamp
    /\ stampOut' = [timestamp |-> formatTimestamp(stampIn), mdPath |-> MdPath(stampIn)]
    /\ UNCHANGED <<stampIn, tagIn, tagOut, provider>>

StampNext == StampOfDate

StampSpec == StampInit /\ [][StampNext]_vars
(***************************************************************************)
(* The registry (section 4.1 of the specification).                        *)
(***************************************************************************)
UniqueKeys == \A i, j \in 1..Len(entries) : i # j => entries[i].key # entries[j].key

\* a segment of handleAdd keeps every entry the registry held, in place, and
\* what it appends are keys the registry did not hold
AddKeepsRegistry ==
    lastOp'.op \in {"handleAdd", "handleAdd:stat"} =>
        /\ Len(entries') >= Len(entries)
        /\ SubSeq(entries', 1, Len(entries)) = entries
        /\ \A i \in (Len(entries) + 1)..Len(entries') : entries'[i].key \notin KeysOf(entries)

\* C1: after any sequence of add batches the registry holds at most one entry
\* per key, and an add of a key already present (registered before, or repeated
\* in the batch) leaves the registry's contents and order as they were.
C1_AddNeverDuplicates == []UniqueKeys /\ [][AddKeepsRegistry]_vars

\* a batch has just returned whose last locator named a key that was already
\* registered or already seen in the batch, and the registry is not empty
C1_Witness ==
    /\ lastOp.op = "handleAdd:stat" /\ lastOp.ret /\ lastOp.arg = "present"
    /\ Len(entries) >= 1

\* registry es with the entry of key k taken out, the others where they were
Without(es, k) ==
    LET p == IndexOf(es, k)
    IN  IF p = 0 THEN es ELSE SubSeq(es, 1, p - 1) \o SubSeq(es, p + 1, Len(es))

\* C2: right after remove(k) the snapshot holds no entry with key k, whether
\* or not k was present; every other entry stays, in its previous order;
\* when k was absent the registry is unchanged.
C2_RemoveDeletesOnlyKey ==
    [][\A k \in Keys :
          (lastOp'.op = "removeEntry" /\ lastOp'.arg = k) =>
              /\ \A i \in 1..Len(Snapshot(entries')) : Snapshot(entries')[i].key # k
              /\ entries' = Without(entries, k)
              /\ (k \notin KeysOf(entries) => entries' = entries)]_vars

\* remove has just deleted a present key and two entries remain
C2_Witness ==
    /\ lastOp.op = "removeEntry" /\ lastOp.posts = 1
    /\ lastOp.arg \notin KeysOf(entries)
    /\ Len(entries) = 2

AlreadyEmpty == Note("info", "Zip Packager list is already empty.", 0)

\* C3: clear() on a non-empty registry empties it and pushes an empty
\* snapshot; on an empty registry it leaves it empty, pushes nothing and
\* reports "already empty" instead.
C3_ClearOutcomes ==
    [][lastOp'.op = "clearAll" =>
          IF entries # <<>>
          THEN /\ entries' = <<>>
               /\ lastOp'.posts = 1
               /\ posted' = [type |-> "entries", entries |-> <<>>, status |-> NoStatus]
               /\ AlreadyEmpty \notin Range(notes')
          ELSE /\ entries' = <<>>
               /\ lastOp'.posts = 0
               /\ posted' = posted
               /\ notes' = <<AlreadyEmpty>>]_vars

\* clear has just emptied a registry and pushed the empty snapshot
C3_Witness ==
    /\ lastOp.op = "clearAll" /\ lastOp.posts = 1
    /\ entries = <<>> /\ posted.entries = <<>>

\* C4: pack() on an empty registry ends with EmptyList, also when there is no
\* workspace folder; it writes no file, creates no directory, awaits no file
\* system call and leaves the registry empty.
C4_PackEmptyList ==
    [][(lastOp'.op = "packEntries" /\ entries = <<>>) =>
          /\ lastOp'.arg = "EmptyList" /\ lastOp'.ret
          /\ notes' = <<Note("info", "Add files or folders before packaging.", 0)>>
          /\ outFile' = NoFile /\ searchDir' = searchDir
          /\ packQ' = packQ
          /\ entries' = <<>>]_vars

\* pack has just returned EmptyList while no workspace folder is open
C4_Witness ==
    /\ lastOp.op = "packEntries" /\ lastOp.arg = "EmptyList"
    /\ ~hasRoot /\ entries = <<>>

(***************************************************************************)
(* Reading a written document back: its header and its sections.           *)
(***************************************************************************)
Cut(s, m, n) == IF m >= 1 /\ n <= Len(s) /\ m <= n THEN SubSeq(s, m, n) ELSE <<>>

IsPrefix(a, b) == Len(a) <= Len(b) /\ Cut(b, 1, Len(a)) = a

\* the first position of x in s, Len(s) + 1 when there is none
FirstIndex(s, x) ==
    IF \E i \in 1..Len(s) : s[i] = x
    THEN CHOOSE i \in 1..Len(s) : s[i] = x /\ \A j \in 1..(i - 1) : s[j] # x
    ELSE Len(s) + 1

RECURSIVE Ascending(_)
Ascending(S) ==
    IF S = {} THEN <<>>
    ELSE LET m == CHOOSE x \in S : \A y \in S : x <= y
         IN  <<m>> \o Ascending(S \ {m})

\* a section begins at each level-two heading
Heads(doc) == {i \in 1..Len(doc) : doc[i] = "## "}

Chunks(doc) ==
    LET h == Ascending(Heads(doc))
    IN  [k \in 1..Len(h) |-> SubSeq(doc, h[k], IF k < Len(h) THEN h[k + 1] - 1 ELSE Len(doc))]

Preamble(doc) ==
    LET h == Ascending(Heads(doc))
    IN  IF h = <<>> THEN doc ELSE SubSeq(doc, 1, h[1] - 1)

HeadingOpen == <<"## ", "U+6587U+4EF6", ": ", BQ>>
FenceOpen == <<BQ, "\n", "\n", BQ, BQ, BQ>>
FenceClose == <<"\n", BQ, BQ, BQ, "\n", "\n">>
Rule == <<"-", "-", "-", "\n", "\n">>

\* the path, tag and content of one section; ok when the section is a heading
\* naming the path, a fenced block with the tag holding the content, and a rule
ParseSection(c) ==
    LET afterOpen == Cut(c, Len(HeadingOpen) + 1, Len(c))
        pEnd == FirstIndex(afterOpen, BQ)
        path == Cut(afterOpen, 1, pEnd - 1)
        afterFence == Cut(afterOpen, pEnd + Len(FenceOpen), Len(afterOpen))
        tEnd == FirstIndex(afterFence, "\n")
        tag == Cut(afterFence, 1, tEnd - 1)
        body == Cut(afterFence, tEnd + 1, Len(afterFence))
        content == Cut(body, 1, Len(body) - Len(FenceClose) - Len(Rule))
    IN  [path |-> path, tag |-> tag, content |-> content,
         ok |-> c = HeadingOpen \o path \o FenceOpen \o tag \o <<"\n">> \o content
                    \o FenceClose \o Rule]

SectionsOf(doc) == [k \in 1..Len(Chunks(doc)) |-> ParseSection(Chunks(doc)[k])]

\* the regular files below each directory of the workspace, at any depth, as
\* paths inside the directory
FilesUnder(key) ==
    IF key = "file:///w/d"
    THEN {<<"x", ".", "t", "x", "t">>, <<"s", "u", "b", "/", "y", ".", "t", "x", "t">>}
    ELSE {}

\* the file name of a path, and its extension without the dot: what follows the
\* last "." of the name when that "." is not the name's first character
FileName(p) ==
    LET slashes == {i \in 1..Len(p) : p[i] = "/"}
        last == IF slashes = {} THEN 0 ELSE CHOOSE i \in slashes : \A j \in slashes : j <= i
    IN  Cut(p, last + 1, Len(p))

Extension(name) ==
    LET ends == {i \in 2..Len(name) : name[i] = "." /\ \A j \in (i + 1)..Len(name) : name[j] # "."}
    IN  IF ends = {} THEN <<>> ELSE Cut(name, (CHOOSE i \in ends : TRUE) + 1, Len(name))

Lower(ch) == IF ch = "B" THEN "b" ELSE ch

ExpectedTag(p) ==
    IF Extension(FileName(p)) = <<>> THEN <<"t", "x", "t">> ELSE Extension(FileName(p))

\* the sections of the document that belong to a registry entry: the one
\* headed by a file entry's path, those headed by paths below a directory entry
SectionsFor(secs, entry) ==
    {k \in 1..Len(secs) :
        IF entry.type = "directory"
        THEN IsPrefix(entry.relativePath \o <<"/">>, secs[k].path)
        ELSE secs[k].path = entry.relativePath}

WantedPaths(entry) ==
    IF entry.type = "directory"
    THEN {Join(entry.relativePath, f) : f \in FilesUnder(entry.key)}
    ELSE {entry.relativePath}

(***************************************************************************)
(* Pack with missing entries (sections 4.2 and 7 of the specification).    *)
(***************************************************************************)
\* the registered keys whose resource is gone
Gone == {k \in KeysOf(entries) : ~fsExists[k]}

PartlyGone == Gone # {} /\ Gone # KeysOf(entries)

ValidationEnds == lastOp'.op = "packEntries:stat" /\ lastOp'.arg # "Validating"

\* every section of a written document belongs to a registered entry, and
\* every registered entry has all its sections
WrittenFromRegistry ==
    outFile.written =>
        LET secs == SectionsOf(outFile.content)
        IN  /\ \A k \in 1..Len(secs) : \E i \in 1..Len(entries) : k \in SectionsFor(secs, entries[i])
            /\ \A i \in 1..Len(entries) :
                   {secs[k].path : k \in SectionsFor(secs, entries[i])} = WantedPaths(entries[i])

\* C5: when some but not all registered entries are gone as pack runs with
\* nothing interleaved, validation ends by going on to serialize exactly the
\* entries that still exist, the registry loses every missing entry and keeps
\* the others in their order, exactly one warning is shown and it counts the
\* missing entries; the pack then never fails and the document it writes holds
\* the sections of the registry's entries and no other
C5_PackPrunesMissing ==
    /\ [][(ValidationEnds /\ PartlyGone) =>
             /\ lastOp'.arg = "Serializing"
             /\ entries' = SelectKeep(entries, {e \in Range(entries) : e.key \in Gone})
             /\ KeysOf(entries') = KeysOf(entries) \ Gone
             /\ packQ'[1].existing = entries'
             /\ notes' = <<Note("warning", "Skipped n missing item(s).", Cardinality(Gone))>>]_vars
    /\ [](lastOp.arg # "Failed")
    /\ []WrittenFromRegistry

C5_Witness ==
    /\ lastOp.op = "packEntries:stat" /\ lastOp.arg = "Serializing"
    /\ Len(notes) = 1 /\ notes[1].kind = "warning" /\ notes[1].n = 1
    /\ Len(entries) = 2 /\ Len(packQ) = 1 /\ packQ[1].existing = entries

(***************************************************************************)
(* The document (sections 4.2 and 6 of the specification).                 *)
(***************************************************************************)
\* C6: a written document holds, for every file entry, exactly one section
\* headed by the entry's relative path; the section is a heading with that
\* path, a fenced block tagged with the language tag of the path and holding
\* the file's content as read, and a separator rule
C6_FileEntryHasOneSection ==
    outFile.written =>
        \A i \in 1..Len(entries) : entries[i].type = "file" =>
            LET secs == SectionsOf(outFile.content)
                mine == SectionsFor(secs, entries[i])
            IN  /\ Cardinality(mine) = 1
                /\ \A k \in mine :
                       /\ secs[k].ok
                       /\ secs[k].tag = ExpectedTag(entries[i].relativePath)
                       /\ secs[k].content = FileContent(FsPath(entries[i].key))

C6_Witness ==
    /\ outFile.written
    /\ \E i \in 1..Len(entries) : entries[i].key = "file:///w/Makefile"
    /\ \E i \in 1..Len(entries) : entries[i].key = "file:///w/a.py"

\* C7: a written document holds, for every directory entry, exactly one
\* section per regular file below the directory at any depth, headed by the
\* entry's relative path joined with the file's path inside the directory, and
\* no section for a directory, whatever the order of the directory listings
C7_DirectoryEntrySections ==
    outFile.written =>
        \A i \in 1..Len(entries) : entries[i].type = "directory" =>
            LET secs == SectionsOf(outFile.content)
                mine == SectionsFor(secs, entries[i])
                want == WantedPaths(entries[i])
            IN  /\ {secs[k].path : k \in mine} = want
                /\ Cardinality(mine) = Cardinality(want)
                /\ \A k \in 1..Len(secs) : secs[k].path # entries[i].relativePath
                /\ \A k \in mine :
                       /\ secs[k].ok
                       /\ secs[k].content = FileContent(<<"/", "w", "/">> \o secs[k].path)

\* a directory listed with sub before x.txt
C7_Witness ==
    /\ outFile.written
    /\ \E i \in 1..Len(entries) : entries[i].type = "directory"
    /\ LET secs == SectionsOf(outFile.content)
       IN  \E k, l \in 1..Len(secs) :
               /\ k < l
               /\ secs[k].path = <<"d", "/", "s", "u", "b", "/", "y", ".", "t", "x", "t">>
               /\ secs[l].path = <<"d", "/", "x", ".", "t", "x", "t">>

\* C8 as the specification words it: the tag of a file is its extension in
\* lowercase without the dot, txt when the name has no extension
LowerAll(w) == [i \in 1..Len(w) |-> Lower(w[i])]

C8_TagIsLowercaseExtension ==
    tagOut # NoTag => tagOut[2] = LowerAll(ExpectedTag(tagIn))

\* C8: the tag of a file is the extension of its name without the dot, spelled
\* as in the name, and txt when the name has no extension; the same from a
\* file entry's relative path and from the name of a file found in a directory
C8_TagIsExtensionAsSpelled ==
    tagOut # NoTag => tagOut[2] = ExpectedTag(tagIn)

C8_Witness ==
    /\ tagOut = <<"item", <<"B">>>>
    /\ tagIn = <<"a", ".", "B">>

\* C9: a written document begins with the header (title line, line of the
\* localized generation time, separator rule) and its sections follow in the
\* registry's insertion order: all sections of an entry come before all
\* sections of every entry inserted after it; each entry's text is appended to
\* what the pass has built so far
C9_SectionsInRegistryOrder ==
    /\ [](outFile.written =>
            LET doc == outFile.content
                secs == SectionsOf(doc)
            IN  /\ \E d \in {Tick(x) : x \in Dates} \cup Dates :
                       Preamble(doc) = <<"# ", "U+6587U+4EF6U+96C6U+5408", "\n", "\n">>
                                       \o <<"U+751FU+6210U+65F6U+95F4", ": ">> \o toLocaleString(d)
                                       \o <<"\n", "\n">> \o Rule
                /\ \A i, j \in 1..Len(entries) : i < j =>
                       \A k \in SectionsFor(secs, entries[i]), l \in SectionsFor(secs, entries[j]) :
                           k < l)
    /\ [][lastOp'.op = "packEntries:read" =>
             /\ IsPrefix(packQ[1].mdContent, packQ'[1].mdContent)
             /\ packQ[1].existing = entries]_vars

C9_Witness ==
    /\ outFile.written
    /\ Len(entries) = 3
    /\ entries[1].type = "directory" /\ entries[2].type = "file"

\* C10: when the registry is not empty and every registered entry is gone as
\* pack runs, validation ends the pack with the NothingToPack error; no file is
\* written, the output directory is not created and the registry is empty
C10_NothingToPack ==
    [][(ValidationEnds /\ entries # <<>> /\ Gone = KeysOf(entries)) =>
          /\ lastOp'.arg = "NothingToPack" /\ lastOp'.ret
          /\ Note("error", "No valid items remain for packaging.", 0) \in Range(notes')
          /\ outFile' = NoFile
          /\ searchDir' = searchDir
          /\ packQ' = <<>>
          /\ entries' = <<>>]_vars

C10_Witness ==
    /\ lastOp.op = "packEntries:stat" /\ lastOp.arg = "NothingToPack"
    /\ Len(notes) = 2 /\ notes[1].n = 2
    /\ entries = <<>> /\ ~searchDir

(***************************************************************************)
(* Pack without a workspace folder.                                        *)
(***************************************************************************)
\* C11: a pack request on a non-empty registry while no workspace folder is
\* open ends at once with the NoRoot error: the handler returns, no pack is
\* left in flight (so no existence check is made), no file is written, no
\* directory is created, no snapshot is posted and the registry is unchanged
C11_PackNoRoot ==
    [][(lastOp'.op = "packEntries" /\ entries # <<>> /\ ~hasRoot) =>
          /\ lastOp'.arg = "NoRoot" /\ lastOp'.ret /\ lastOp'.posts = 0
          /\ notes' = <<Note("error", "Open a workspace folder to use Zip Packager.", 0)>>
          /\ packQ' = packQ
          /\ outFile' = NoFile
          /\ searchDir' = searchDir
          /\ posted' = posted
          /\ entries' = entries]_vars

\* a registered entry is gone, and still registered after the refused pack
C11_Witness ==
    /\ lastOp.op = "packEntries" /\ lastOp.arg = "NoRoot"
    /\ Len(entries) = 2 /\ ~hasRoot
    /\ \E k \in KeysOf(entries) : ~fsExists[k]

(***************************************************************************)
(* The output path (section 4.2, step 6 of the specification).             *)
(***************************************************************************)
DigitChars == <<"0", "1", "2", "3", "4", "5", "6", "7", "8", "9">>

TwoDigits(n) == <<DigitChars[(n \div 10) + 1], DigitChars[(n % 10) + 1]>>

FourDigits(n) == TwoDigits(n \div 100) \o TwoDigits(n % 100)

\* YYYYMMDD-HHmmss of a local time whose month is counted from 0
ExpectedStamp(date) ==
    FourDigits(date.year) \o TwoDigits(date.month + 1) \o TwoDigits(date.date) \o <<"-">>
    \o TwoDigits(date.hours) \o TwoDigits(date.minutes) \o TwoDigits(date.seconds)

\* C12: the timestamp of a local time with a four-digit year is the year, the
\* 1-based month, the day, a hyphen, the hour, the minute and the second, all
\* but the year padded with zeros to two digits, 15 characters in all, and the
\* output path is <root>/search/bundle-<timestamp>.md
C12_TimestampAndPath ==
    stampOut # NoStamp =>
        /\ stampOut.timestamp = ExpectedStamp(stampIn)
        /\ Len(stampOut.timestamp) = 15
        /\ stampOut.mdPath = <<"/", "w", "/", "search", "/", "bundle-">>
                             \o ExpectedStamp(stampIn) \o <<".md">>

\* 9 September 1000, 09:09:00
C12_Witness ==
    /\ stampIn = Date(1000, 8, 9, 9, 9, 0)
    /\ stampOut.timestamp = <<"1", "0", "0", "0", "0", "9", "0", "9", "-", "0", "9", "0", "9", "0", "0">>

(***************************************************************************)
(* Insertion order (section 4.1 of the specification).                     *)
(***************************************************************************)
KeySeq(es) == [i \in 1..Len(es) |-> es[i].key]

\* no step changes the relative order of two keys that stay registered
OrderKept ==
    \A a, b \in KeysOf(entries) \cap KeysOf(entries') :
        IndexOf(entries, a) < IndexOf(entries, b) => IndexOf(entries', a) < IndexOf(entries', b)

\* a posted snapshot lists the registry as it is, entry by entry
SnapshotInOrder ==
    lastOp'.posts > 0 =>
        /\ posted'.type = "entries"
        /\ KeySeq(posted'.entries) = KeySeq(entries')
        /\ posted'.entries = Snapshot(entries')

\* the keys add t has resolved once the segment that ends in outcome arg is over
ResolvedAfter(t, arg) ==
    KeySeq(t.resolved) \o (IF arg = "resolved" THEN <<UriKey(Head(t.rest))>> ELSE <<>>)

IsSuffix(a, b) == Len(a) <= Len(b) /\ Cut(b, Len(b) - Len(a) + 1, Len(b)) = a

\* a segment of an add resolves the locators of its batch from first to last,
\* a key at its first occurrence only, and the segment that ends the add puts
\* the resolved keys the registry lacks after the registry's entries, in that order
AddInBatchOrder ==
    /\ (lastOp'.op = "handleAdd" /\ lastOp'.ret) => entries' = entries
    /\ lastOp'.op = "handleAdd:stat" =>
           \E i \in 1..Len(addQ) :
               LET t == addQ[i]
                   keys == ResolvedAfter(t, lastOp'.arg)
               IN  /\ lastOp'.arg = "resolved" => UriKey(Head(t.rest)) \notin Range(KeySeq(t.resolved))
                   /\ IF lastOp'.ret
                      THEN /\ addQ' = RemoveAt(addQ, i)
                           /\ KeySeq(entries') =
                                  KeySeq(entries) \o SelectSeq(keys, LAMBDA k : k \notin KeysOf(entries))
                      ELSE /\ Len(addQ') = Len(addQ)
                           /\ KeySeq(addQ'[i].resolved) = keys
                           /\ IsSuffix(addQ'[i].rest, Tail(t.rest))
                           /\ entries' = entries

\* C13: every snapshot lists the registry's entries in insertion order: an add
\* puts its new entries after all earlier ones, in the order of their first
\* occurrence in its batch, and no step (a remove, a re-add of a present key,
\* a pruning pack) changes the relative order of the entries that stay
C13_SnapshotInInsertionOrder ==
    [][SnapshotInOrder /\ OrderKept /\ AddInBatchOrder]_vars

\* Makefile and a.py added in one batch, in this order, after d
C13_Witness ==
    /\ lastOp.op = "handleAdd:stat" /\ lastOp.ret /\ lastOp.posts = 1
    /\ KeySeq(entries) = <<"file:///w/d", "file:///w/Makefile", "file:///w/a.py">>
    /\ KeySeq(posted.entries) = KeySeq(entries)

(***************************************************************************)
(* The refresh after an add (section 4.1 of the specification).            *)
(***************************************************************************)
AddReturns == lastOp'.op \in {"handleAdd", "handleAdd:stat"} /\ lastOp'.ret

AddSuspends == lastOp'.op \in {"handleAdd", "handleAdd:stat"} /\ ~lastOp'.ret

ItemsAdded == posted'.type = "entries" /\ posted'.status = "Items added."

\* C14 as the specification words it: every add call pushes a snapshot, and
\* the snapshot carries the status exactly when the call inserted an entry
C14_EveryAddRefreshes ==
    [][AddReturns =>
          /\ lastOp'.posts >= 1
          /\ ItemsAdded <=> Len(entries') > Len(entries)]_vars

\* the keys the returning add call has accepted
AcceptedKeys ==
    IF lastOp'.op = "handleAdd" THEN {}
    ELSE UNION {Range(ResolvedAfter(addQ[i], lastOp'.arg)) : i \in {j \in 1..Len(addQ) : addQ' = RemoveAt(addQ, j)}}

\* C14: an add call pushes a snapshot exactly when it accepted at least one
\* locator, which it does whenever it inserted an entry; the push is the one
\* message of the call, it carries the status and the registry after the
\* insertions; a call that accepted nothing, and every segment before the
\* call's return, posts nothing
C14_AddRefreshesWhenItAccepted ==
    [][/\ AddReturns =>
             /\ lastOp'.posts = (IF AcceptedKeys # {} THEN 1 ELSE 0)
             /\ Len(entries') > Len(entries) => lastOp'.posts = 1
             /\ lastOp'.posts = 1 => ItemsAdded /\ posted'.entries = Snapshot(entries')
             /\ lastOp'.posts = 0 => posted' = posted /\ entries' = entries
       /\ AddSuspends => lastOp'.posts = 0 /\ posted' = posted]_vars

C14_Witness ==
    /\ lastOp.op = "handleAdd:stat" /\ lastOp.ret /\ lastOp.posts = 1
    /\ posted.status = "Items added."
    /\ Len(posted.entries) = 2

(***************************************************************************)
(* Locators an add rejects (sections 4.1 and 7 of the specification).      *)
(***************************************************************************)
Outside(raw) == raw # "" /\ ~InWorkspace(UriKey(raw))

Throws(raw) == raw # "" /\ InWorkspace(UriKey(raw)) /\ UriKey(raw) \in DynKeys /\ ~fsExists[UriKey(raw)]

\* neither the File bit (1) nor the Directory bit (2) of the stat type is set
Unsupported(raw) ==
    raw # "" /\ InWorkspace(UriKey(raw)) /\ ~Throws(raw) /\ StatType(UriKey(raw)) % 4 = 0

Rejected(raw) == Outside(raw) \/ Throws(raw) \/ Unsupported(raw)

RECURSIVE Fresh(_, _)
\* the keys of the valid locators of a batch that are not in `have`, each at
\* its first occurrence
Fresh(batch, have) ==
    IF batch = <<>> THEN <<>>
    ELSE LET raw == Head(batch)
         IN  IF raw # "" /\ ~Rejected(raw) /\ UriKey(raw) \notin have
             THEN <<UriKey(raw)>> \o Fresh(Tail(batch), have \cup {UriKey(raw)})
             ELSE Fresh(Tail(batch), have)

OutsideWarning == Note("warning", "Only workspace files or folders can be added.", 0)
UnsupportedWarning == Note("warning", "Only files and folders are supported.", 0)

\* the batch of the add call that returns in this step
ReturningBatch == IF lastOp'.op = "handleAdd" THEN lastOp'.batch ELSE addQ[1].incoming

\* C15: with nothing else running during an add, a locator of its batch that
\* is outside the workspace, of an unsupported kind or whose stat throws is not
\* inserted; a throw is logged and shown as an error in the segment where it
\* happens and the loop goes on; when the add returns, a warning has been shown
\* for the locators outside the workspace and one for the unsupported ones,
\* and every valid locator of the batch whose key is new is in the registry,
\* after the earlier entries, wherever in the batch the rejected ones were
C15_RejectedLocatorsDoNotStopBatch ==
    [][/\ AddReturns =>
             LET batch == ReturningBatch
             IN  /\ KeySeq(entries') = KeySeq(entries) \o Fresh(batch, KeysOf(entries))
                 /\ \A j \in 1..Len(batch) :
                        Rejected(batch[j]) => UriKey(batch[j]) \notin KeysOf(entries') \ KeysOf(entries)
                 /\ OutsideWarning \in Range(notes') <=> \E j \in 1..Len(batch) : Outside(batch[j])
                 /\ UnsupportedWarning \in Range(notes') <=> \E j \in 1..Len(batch) : Unsupported(batch[j])
       /\ lastOp'.op = "handleAdd:stat" =>
             /\ Throws(Head(addQ[1].rest)) <=> lastOp'.arg = "thrown"
             /\ lastOp'.arg = "thrown" <=> IsPrefix(AddCatch, notes')
             /\ ~lastOp'.ret => /\ addQ'[1].incoming = addQ[1].incoming
                                /\ IsSuffix(addQ'[1].rest, Tail(addQ[1].rest))
                                /\ addQ'[1].rest # <<>>]_vars

\* the stat of a.py threw, the error was reported, and the add goes on to Makefile
C15_Witness ==
    /\ lastOp.op = "handleAdd:stat" /\ lastOp.arg = "thrown" /\ ~lastOp.ret
    /\ notes = AddCatch
    /\ Len(addQ) = 1
    /\ addQ[1].incoming = <<"file:///w/a.py", "file:///w/Makefile">>
    /\ addQ[1].rest = <<"file:///w/Makefile">>

(***************************************************************************)
(* The phases of a pack (section 5 of the specification).                  *)
(***************************************************************************)
PhaseRank(phase) ==
    CASE phase = "Validating" -> 1 [] phase = "Serializing" -> 2 [] phase = "Writing" -> 3

Phases(q) == [i \in 1..Len(q) |-> q[i].phase]

PackEnds == lastOp.ret /\ lastOp.op \in {"packEntries:stat", "packEntries:ensureDir",
                                       "packEntries:read", "packEntries:write"}

\* what a step does to the packs in flight: a request starts one in Validating,
\* or one pack ends, or every pack stays in its phase or moves to the next one
PhaseStep ==
    \/ /\ Len(packQ') = Len(packQ) + 1
       /\ lastOp'.op = "packEntries" /\ ~lastOp'.ret
       /\ Phases(packQ') = Append(Phases(packQ), "Validating")
    \/ /\ Len(packQ') = Len(packQ) - 1
       /\ PackEnds'
       /\ lastOp'.arg \in {"Done", "Failed", "NothingToPack"}
       /\ \E i \in 1..Len(packQ) :
              /\ Phases(packQ') = RemoveAt(Phases(packQ), i)
              /\ lastOp'.arg = "Done" => packQ[i].phase = "Writing"
              /\ lastOp'.arg = "NothingToPack" => packQ[i].phase = "Validating"
       /\ lastOp'.arg = "Done" <=> outFile'.written
    \/ /\ Len(packQ') = Len(packQ)
       /\ ~PackEnds'
       /\ ~outFile'.written
       /\ \A i \in 1..Len(packQ) :
              PhaseRank(packQ'[i].phase) - PhaseRank(packQ[i].phase) \in {0, 1}

Created == Note("info", "Created basename.", 0)

\* pack i awaits the reads of an entry
Reading(i) == packQ[i].phase = "Serializing" /\ packQ[i].idx >= 1

\* C17: a failing ensureDir, read, listing or writeFile of a pack ends the pack
\* in its catch block: the step is the pack's last, the error is logged and the
\* failure message shown, no success message is shown, no file is written, no
\* snapshot is pushed and the registry is as before the failure; a read of an
\* entry whose resource is gone does fail, and a step of createArchive that
\* does not fail is not reported as a failure
C17_PackFailureIsCaught ==
    [][/\ lastOp'.arg = "Failed" =>
             /\ PackEnds'
             /\ \E i \in 1..Len(packQ) :
                    /\ Phases(packQ') = RemoveAt(Phases(packQ), i)
                    /\ packQ[i].phase \in {"Serializing", "Writing"}
             /\ notes' = <<Note("log", "Packaging failed", 0),
                          Note("error", "Failed to create markdown file. Check Zip Packager output for details.", 0)>>
             /\ Created \notin Range(notes')
             /\ outFile' = NoFile
             /\ lastOp'.posts = 0 /\ posted' = posted
             /\ entries' = entries
       /\ (lastOp'.op = "packEntries:read" /\ lastOp'.arg # "Failed") =>
              \E i \in 1..Len(packQ) :
                  Reading(i) /\ ~StatThrows(packQ[i].existing[packQ[i].idx].key)
       /\ (lastOp'.op \in {"packEntries:ensureDir", "packEntries:read", "packEntries:write"}
              /\ lastOp'.arg # "Failed") =>
              /\ Range(PackCatch) \cap Range(notes') = {}
              /\ lastOp'.arg = "Done" <=> Created \in Range(notes')]_vars

\* the entry was there when validated and gone when read
C17_Witness ==
    /\ lastOp.op = "packEntries:read" /\ lastOp.arg = "Failed" /\ lastOp.ret
    /\ Len(entries) = 2 /\ packQ = <<>>
    /\ \E k \in KeysOf(entries) : ~fsExists[k]

(***************************************************************************)
(* Overlapping packs (sections 5 and 9 of the specification).              *)
(***************************************************************************)
\* a pack's own data: everything but the position of its registry iterator
Core(t) == [t EXCEPT !.cursor = 0]

CoreSeq(q) == [i \in 1..Len(q) |-> Core(q[i])]

\* C18: a pack request on a non-empty registry with a workspace folder is
\* accepted whatever packs are in flight: it joins them with lists of its own
\* and awaits its first existence check; a step changes the lists and the phase
\* of one pack at most, and a pack that ends leaves the others as they are
C18_PacksOverlap ==
    [][/\ (lastOp'.op = "packEntries" /\ entries # <<>> /\ hasRoot) =>
             /\ lastOp'.arg = "Validating" /\ ~lastOp'.ret
             /\ Len(packQ') = Len(packQ) + 1
             /\ SubSeq(packQ', 1, Len(packQ)) = packQ
             /\ LET t == packQ'[Len(packQ')]
                IN  /\ t.phase = "Validating" /\ t.entry = entries[1]
                    /\ t.existing = <<>> /\ t.missing = <<>> /\ t.mdContent = <<>>
       /\ Len(packQ') = Len(packQ) =>
              Cardinality({i \in 1..Len(packQ) : Core(packQ'[i]) # Core(packQ[i])}) <= 1
       /\ Len(packQ') = Len(packQ) - 1 =>
              \E i \in 1..Len(packQ) : CoreSeq(packQ') = RemoveAt(CoreSeq(packQ), i)]_vars

\* a second pack validates while the first awaits its writeFile
C18_Witness ==
    /\ Len(packQ) = 2
    /\ packQ[1].phase = "Writing" /\ packQ[2].phase = "Validating"
    /\ lastOp.op = "packEntries" /\ lastOp.arg = "Validating"

(***************************************************************************)
(* A pack and a concurrent remove or clear (section 5).                    *)
(***************************************************************************)
\* the document holds the sections of the entries of list es and no other
WrittenFrom(doc, es) ==
    LET secs == SectionsOf(doc)
    IN  /\ \A k \in 1..Len(secs) : \E i \in 1..Len(es) : k \in SectionsFor(secs, es[i])
        /\ \A i \in 1..Len(es) : {secs[k].path : k \in SectionsFor(secs, es[i])} = WantedPaths(es[i])

\* C19: a pack serializes the entries it found when it checked them, not the
\* registry: a remove or a clear leaves the list of validated entries of every
\* pack as it is, the validation loop goes on only to entries still registered
\* and adds to its list no entry but the one whose check it awaited, and the
\* document written is the one of that list, whatever the registry holds by then
C19_PackIsNotAtomic ==
    [][/\ lastOp'.op \in {"removeEntry", "clearAll"} => CoreSeq(packQ') = CoreSeq(packQ)
       /\ lastOp'.op = "packEntries:stat" =>
              \E i \in 1..Len(packQ) :
                  /\ packQ[i].phase = "Validating"
                  /\ lastOp'.arg = "Validating" =>
                         /\ packQ'[i].existing \in {packQ[i].existing, Append(packQ[i].existing, packQ[i].entry)}
                         /\ packQ'[i].entry \in Range(entries)
                  /\ lastOp'.arg = "Serializing" =>
                         packQ'[i].existing \in {packQ[i].existing, Append(packQ[i].existing, packQ[i].entry)}
       /\ lastOp'.arg = "Done" =>
              \E i \in 1..Len(packQ) :
                  /\ packQ[i].phase = "Writing"
                  /\ CoreSeq(packQ') = RemoveAt(CoreSeq(packQ), i)
                  /\ WrittenFrom(outFile'.content, packQ[i].existing)]_vars

\* validation ended with one entry to serialize, nothing missing, and the
\* registry already empty: it was cleared while the pack awaited a check
C19_Witness ==
    /\ lastOp.op = "packEntries:stat" /\ lastOp.arg = "Serializing" /\ notes = <<>>
    /\ entries = <<>>
    /\ Len(packQ) = 1 /\ Len(packQ[1].existing) = 1 /\ packQ[1].missing = <<>>

(***************************************************************************)
(* The insertion step of an add.                                           *)
(***************************************************************************)
\* C20: an add changes the registry in one step, its last: a segment that
\* leaves the add suspended at a stat changes neither the registry nor the
\* snapshot, however many locators the add has accepted, and the segment in
\* which the add returns puts every accepted key the registry lacks into the
\* registry at once
C20_AddInsertsAtOnce ==
    [][/\ AddSuspends =>
             /\ entries' = entries
             /\ posted' = posted
       /\ (lastOp'.op = "handleAdd:stat" /\ lastOp'.ret) =>
             /\ KeysOf(entries') = KeysOf(entries) \cup AcceptedKeys
             /\ Len(entries') - Len(entries) = Cardinality(AcceptedKeys \ KeysOf(entries))
             /\ SubSeq(entries', 1, Len(entries)) = entries]_vars

\* a locator is accepted, the add is suspended at the next stat, nothing is inserted
C20_Witness ==
    /\ lastOp.op = "handleAdd:stat" /\ lastOp.arg = "resolved" /\ ~lastOp.ret
    /\ Len(addQ) = 1 /\ Len(addQ[1].resolved) = 1
    /\ addQ[1].resolved[1].key \notin KeysOf(entries)

(***************************************************************************)
(* Two adds that accept the same key.                                      *)
(***************************************************************************)
\* the add that returns in this step
Returning(i) == i \in 1..Len(addQ) /\ addQ' = RemoveAt(addQ, i)

\* the place of key k in the registry es, 0 when es has no entry for k
PlaceOf(es, k) == IF k \in KeysOf(es) THEN IndexOf(es, k) ELSE 0

\* the number of entries of es with key k
CountOf(es, k) == Cardinality({j \in 1..Len(es) : es[j].key = k})

\* C21: an add that returns having accepted a key which another add,
\* accepting it too, has put into the registry in the meantime, leaves the
\* registry with one entry for that key, the same entry at the place the first
\* insertion gave it; the entries registered before the return keep their
\* places, and only the accepted keys the registry lacked come after them
C21_SameKeyTwoAdds ==
    [][(lastOp'.op = "handleAdd:stat" /\ lastOp'.ret) =>
          \E i \in 1..Len(addQ) :
              LET accepted == Range(ResolvedAfter(addQ[i], lastOp'.arg))
              IN  /\ Returning(i)
                  /\ \A k \in accepted :
                         /\ CountOf(entries', k) = 1
                         /\ k \in KeysOf(entries) =>
                                /\ PlaceOf(entries', k) = PlaceOf(entries, k)
                                /\ entries'[PlaceOf(entries', k)] = entries[PlaceOf(entries, k)]
                  /\ SubSeq(KeySeq(entries'), 1, Len(entries)) = KeySeq(entries)
                  /\ Len(entries') = Len(entries) + Cardinality(accepted \ KeysOf(entries))]_vars

\* two adds accepted a.py while it was not registered; one has returned and
\* put it first in the registry, before d; the other, still suspended at a
\* stat, will set it again when it returns
C21_Witness ==
    /\ lastOp.op = "handleAdd:stat" /\ lastOp.ret /\ lastOp.posts = 1
    /\ Len(addQ) = 1
    /\ "file:///w/a.py" \in KeysOf(addQ[1].resolved)
    /\ KeySeq(entries) = <<"file:///w/a.py", "file:///w/d">>

(***************************************************************************)
(* A remove or a clear while an add is suspended.                          *)
(***************************************************************************)
\* what the suspended adds have resolved so far
ResolvedSoFar == [i \in 1..Len(addQ) |-> addQ[i].resolved]

\* C22: a remove or a clear leaves what the suspended adds have accepted as it
\* is, whether or not it deleted an entry, and an add that returns puts every
\* key it accepted into the registry and pushes a snapshot that lists them, so
\* a key removed or cleared after an add accepted it is registered and shown
\* once that add returns
C22_RemoveDoesNotCancelAdd ==
    [][/\ lastOp'.op \in {"removeEntry", "clearAll"} => ResolvedSoFar' = ResolvedSoFar
       /\ (lastOp'.op = "handleAdd:stat" /\ lastOp'.ret) =>
              \E i \in 1..Len(addQ) :
                  LET accepted == Range(ResolvedAfter(addQ[i], lastOp'.arg))
                  IN  /\ Returning(i)
                      /\ accepted \subseteq KeysOf(entries')
                      /\ accepted # {} =>
                             /\ lastOp'.posts = 1
                             /\ posted'.type = "entries"
                             /\ accepted \subseteq KeysOf(posted'.entries)
                             /\ posted'.entries = Snapshot(entries')]_vars

\* a.py was accepted by an add that is still suspended, then registered by
\* another add, and has just been removed from the registry again
C22_Witness ==
    /\ lastOp.op = "removeEntry" /\ lastOp.arg = "file:///w/a.py" /\ lastOp.posts = 1
    /\ Len(addQ) = 1
    /\ "file:///w/a.py" \in KeysOf(addQ[1].resolved)
    /\ "file:///w/a.py" \notin KeysOf(entries)

(***************************************************************************)
(* The one write of a pack.                                                *)
(***************************************************************************)
\* the number of packs that await their writeFile
Writers(q) == Cardinality({i \in 1..Len(q) : q[i].phase = "Writing"})

\* C23: a pack gets to its writeFile only in the step in which the reads of
\* the last entry it serializes succeed, every earlier entry having been read;
\* a file is written only in the step in which that writeFile succeeds, in
\* full and under the path chosen before the reads, and that step ends the
\* pack; a pack that fails leaves the queue without having written, the output
\* directory being there already when the failure was a read's or the write's
C23_OneWriteAfterAllReads ==
    [][/\ IF lastOp'.arg = "Writing"
          THEN /\ lastOp'.op = "packEntries:read"
               /\ Writers(packQ') = Writers(packQ) + 1
               /\ \E i \in 1..Len(packQ) :
                      /\ Reading(i) /\ packQ[i].idx = Len(packQ[i].existing)
                      /\ packQ' = [packQ EXCEPT ![i] = packQ'[i]]
                      /\ packQ'[i].phase = "Writing"
                      /\ packQ'[i].mdPath = packQ[i].mdPath
                      /\ WrittenFrom(packQ'[i].mdContent, packQ[i].existing)
          ELSE Writers(packQ') <= Writers(packQ)
       /\ lastOp'.arg = "Serializing" /\ lastOp'.op = "packEntries:read" =>
              \E i \in 1..Len(packQ) :
                  /\ Reading(i) /\ packQ[i].idx < Len(packQ[i].existing)
                  /\ packQ'[i].idx = packQ[i].idx + 1
       /\ outFile'.written =>
              /\ lastOp'.op = "packEntries:write" /\ lastOp'.arg = "Done"
              /\ \E i \in 1..Len(packQ) :
                     /\ packQ[i].phase = "Writing"
                     /\ packQ' = RemoveAt(packQ, i)
                     /\ outFile'.content = packQ[i].mdContent
                     /\ outFile'.path = packQ[i].mdPath
       /\ lastOp'.arg = "Failed" =>
              /\ ~outFile'.written
              /\ Len(packQ') = Len(packQ) - 1
              /\ lastOp'.op \in {"packEntries:read", "packEntries:write"} => searchDir'
              /\ lastOp'.op = "packEntries:read" => Writers(packQ') = Writers(packQ)]_vars

\* the reads of an entry of a pack have just failed: the directory search is
\* there, the pack is over and no file was written
C23_Witness ==
    /\ lastOp.op = "packEntries:read" /\ lastOp.arg = "Failed"
    /\ searchDir /\ ~outFile.written
    /\ packQ = <<>>
    /\ Len(entries) = 2

(***************************************************************************)
(* The snapshot after a change of the registry.                            *)
(***************************************************************************)
\* the message that shows registry es: key, relativePath and type of every
\* entry, in the registry's order
Shows(msg, es) ==
    /\ msg.type = "entries"
    /\ Len(msg.entries) = Len(es)
    /\ \A i \in 1..Len(es) :
           /\ DOMAIN msg.entries[i] = {"key", "relativePath", "type"}
           /\ msg.entries[i].key = es[i].key
           /\ msg.entries[i].relativePath = es[i].relativePath
           /\ msg.entries[i].type = es[i].type

\* C24: with a view attached, a step that changes the registry (an add that
\* returns having inserted, a remove or a clear that deleted, the pruning at
\* the end of a pack's validation, and no other step) posts a snapshot, and the
\* snapshot posted last shows the registry as the step leaves it
C24_SnapshotFollowsRegistry ==
    [][(entries' # entries /\ view') =>
          /\ lastOp'.posts >= 1
          /\ Shows(posted', entries')
          /\ lastOp'.op \in {"handleAdd", "handleAdd:stat", "removeEntry", "clearAll", "packEntries:stat"}
          /\ lastOp'.op \in {"handleAdd", "handleAdd:stat"} =>
                 lastOp'.ret /\ Len(entries') > Len(entries)
          /\ lastOp'.op \in {"removeEntry", "clearAll", "packEntries:stat"} =>
                 Len(entries') < Len(entries)
          /\ lastOp'.op = "packEntries:stat" => lastOp'.arg \in {"Serializing", "NothingToPack"}]_vars

\* a pack has pruned Makefile, which was gone, and goes on to serialize a.py;
\* the snapshot shows the one entry left
C24_Witness ==
    /\ lastOp.op = "packEntries:stat" /\ lastOp.arg = "Serializing" /\ lastOp.posts = 1
    /\ view
    /\ notes = SkippedWarning(<<NoEntry>>)
    /\ ~fsExists["file:///w/Makefile"]
    /\ KeySeq(entries) = <<"file:///w/a.py">>
    /\ Shows(posted, entries)
    /\ Len(packQ) = 1 /\ KeySeq(packQ[1].missing) = <<"file:///w/Makefile">>

====
